---- MODULE Spec2Model ----
(***************************************************************************)
(* Nexus: the workflow orchestrator (services/agent-core/agent-core.py)    *)
(* and the four capability servers under services/mcp.                     *)
(*                                                                         *)
(* Python dicts are TLA+ functions over string keys (records); a key is    *)
(* present iff it is in the DOMAIN.  A task string is a sequence of words; *)
(* "kw in task.lower()" is the existence of a word whose lower-case form   *)
(* is kw.  Each outbound call of the orchestrator is split in two steps:   *)
(* the step that issues it, and the step in which it returns (with any of  *)
(* the outcomes the HTTP client can produce).                              *)
(***************************************************************************)
EXTENDS Integers, Sequences, FiniteSets, TLC

VARIABLES
    pc,          \* orchestrator handler: "idle", "await_mcp", "await_bedrock", "responded"
    request,     \* the request being handled by AgentHandler.do_POST
    branch,      \* the branch of execute_workflow that runs ("" before classification)
    locals,      \* values returned so far by the calls of this execution, in order
    calls,       \* the outbound calls issued by this execution, in order
    inflight,    \* indices (into calls) of the calls that have not returned yet
    response,    \* the HTTP response written by do_POST
    max_token_count, \* AgentCore.max_token_count, set once by __init__ from the config
    workers,     \* further orchestrator processes: the handler state of each
    data_store,  \* CustomMCP.data_store: key -> {value, timestamp}
    db_rows,     \* the committed rows (names) of the users table of the SQLite file
    aws_env,     \* AWSMCP: whether a session exists, and whether the stream is configured
    mcp_pc,      \* capability servers: "idle" or "responded"
    mcp_request, \* the request a capability server is answering, and which server
    mcp_response,\* the HTTP response written by that server's MCPHandler.do_POST
    effects      \* the writes made to external collaborators while answering it

agent_vars == <<pc, request, branch, locals, calls, inflight, response, max_token_count,
                workers>>
mcp_vars == <<data_store, db_rows, aws_env, mcp_pc, mcp_request, mcp_response, effects>>
vars == <<pc, request, branch, locals, calls, inflight, response, max_token_count,
          workers, data_store, db_rows, aws_env, mcp_pc, mcp_request, mcp_response, effects>>

-----------------------------------------------------------------------------
(* Bounds and input sets                                                   *)

MaxTaskLen == 2

\* Words a task string is made of: every keyword the classifier tests, a
\* word that is no keyword, and three spellings that differ from a keyword
\* by case only.
Keywords == {"bedrock", "s3", "weather", "database", "kubernetes", "k8s",
             "drone", "glue", "scale", "status", "health", "pods",
             "troubleshoot", "start"}
Words == Keywords \cup {"check", "Weather", "K8S", "GLUE"}

\* The sub-keywords of the cluster-ops group, and the cluster-ops tasks that
\* carry two of them.
SubKeywords == {"scale", "status", "health", "pods", "troubleshoot"}
ClusterTasks == {<<a, "k8s", b>> : a \in SubKeywords, b \in SubKeywords}

Tasks == UNION {[1..n -> Words] : n \in 0..MaxTaskLen} \cup ClusterTasks

\* str.lower on a word
lower(w) ==
    CASE w = "Weather" -> "weather"
      [] w = "K8S" -> "k8s"
      [] w = "GLUE" -> "glue"
      [] OTHER -> w

\* kw in task.lower()
Contains(kw, task) == \E i \in 1..Len(task) : lower(task[i]) = kw

\* dict.get(key, default)
Get(d, k, default) == IF k \in DOMAIN d THEN d[k] ELSE default

\* bool(d.get(k)) for string values: absent (None) and "" are falsy
Truthy(d, k) == k \in DOMAIN d /\ d[k] # ""

\* JSON values of telemetry (the event, its fields, the partition key),
\* tagged with their JSON type; JNull is Python's None
JObject(fields) == [type |-> "object", value |-> fields]
JString(s) == [type |-> "string", value |-> s]
JNull == [type |-> "null", value |-> <<>>]

\* The workflow parameters a client sends next to the task.
NoParams == <<>>
FullParams == [city |-> "Reno", prompt |-> "hi", pod_name |-> "web-1",
               job_name |-> "x", deployment_name |-> "d", replicas |-> 5,
               namespace |-> "prod", query |-> "SELECT name FROM users",
               event |-> JObject([droneId |-> JString("d1"), timestamp |-> JString("t1")])]
FalsyParams == [pod_name |-> "", event |-> JString("oops")]
KeyedParams == [partition_key |-> JString("pk-7"),
                event |-> JObject([altitude |-> JString("120")]),
                query |-> "INSERT INTO users (name, email) VALUES ('Carol', 'carol@example.com')"]
ParamSets == {NoParams, FullParams, FalsyParams, KeyedParams}

\* Request bodies: one that json.loads rejects, and parsed envelopes.
BadBody == [parsed |-> FALSE, method |-> "", params |-> <<>>]
Envelope(m, p) == [parsed |-> TRUE, method |-> m, params |-> p]
Requests ==
    {BadBody}
    \cup {Envelope("workflow/execute", [task |-> t] @@ p) : t \in Tasks, p \in ParamSets}
    \cup {Envelope("tools/list", <<>>),
          Envelope("Workflow/Execute", [task |-> <<"bedrock">>, prompt |-> "hi"])}

-----------------------------------------------------------------------------
(* What an outbound call can come back with                                *)

Text(t) == [type |-> "text", text |-> t]

RunText == "{\"job_name\": \"x\", \"run_id\": \"jr_1\", \"status\": \"STARTING\"}"
NoRunText == "{\"status\": \"processed\"}"
PlainText == "Scaled d to 5 replicas"

\* json.loads on the texts above
json_loads(text) ==
    CASE text = RunText ->
           [ok |-> TRUE, value |-> [job_name |-> "x", run_id |-> "jr_1", status |-> "STARTING"]]
      [] text = NoRunText ->
           [ok |-> TRUE, value |-> [status |-> "processed"]]
      [] OTHER ->
           [ok |-> FALSE, value |-> <<>>]

\* JSON bodies a capability server answers with (status 200)
ErrorBody == [error |-> "Glue job start error: AccessDenied"]
EmptyBody == <<>>
EmptyContent == [content |-> <<>>]
ContentBody(t) == [content |-> <<Text(t)>>]
Bodies == {ErrorBody, EmptyBody, EmptyContent,
           ContentBody(PlainText), ContentBody(NoRunText), ContentBody(RunText)}

\* Outcomes of requests.post: an exception (timeout, refused connection),
\* or an HTTP response with a status and a JSON body.
McpOutcomes ==
    {[kind |-> "exc", status |-> 0, body |-> <<>>]}
    \cup {[kind |-> "http", status |-> 500, body |-> [error |-> "'key'"]]}
    \cup {[kind |-> "http", status |-> 200, body |-> b] : b \in Bodies}

\* Outcomes of bedrock.invoke_model: the generated text, or an exception.
BedrockOutcomes ==
    {[kind |-> "ok", text |-> "Looks fine."],
     [kind |-> "exc", text |-> "ThrottlingException"]}

-----------------------------------------------------------------------------
(* AgentCore: configuration and the two outbound calls                     *)

\* AgentCoreConfig defaults: the servers that have an endpoint, and the
\* (empty) table of data pipelines.
mcp_endpoints == {"aws", "database", "custom", "k8s"}
data_pipelines == <<>>

\* BedrockConfig.max_token_count
DefaultMaxTokenCount == 200

\* The settings files load_config may find: none (or an empty one), and
\* files that set bedrock.textGeneration / textGenerationConfig.maxTokenCount.
NoSettings == <<>>
Settings ==
    {NoSettings,
     [bedrock |-> [textGeneration |-> [maxTokenCount |-> 0]]],
     [bedrock |-> [textGenerationConfig |-> [maxTokenCount |-> 3072]]],
     [bedrock |-> [textGeneration |-> <<>>,
                   textGenerationConfig |-> [maxTokenCount |-> 4072]]]}

\* load_config, for the one field of the config that invoke_bedrock reads:
\* text_cfg is textGeneration unless that is missing or empty, and a
\* missing or zero maxTokenCount leaves the default.
load_config(payload) ==
    LET bedrock_cfg == Get(payload, "bedrock", <<>>)
        first == Get(bedrock_cfg, "textGeneration", <<>>)
        text_cfg == IF DOMAIN first # {} THEN first
                    ELSE Get(bedrock_cfg, "textGenerationConfig", <<>>)
    IN [max_token_count |->
           IF "maxTokenCount" \in DOMAIN text_cfg /\ text_cfg.maxTokenCount # 0
           THEN text_cfg.maxTokenCount
           ELSE DefaultMaxTokenCount]

\* call_mcp_tool: the dict it returns for an outcome of requests.post.
\* raise_for_status raises for a 4xx/5xx status; every exception becomes
\* {"error": str(exc)}.
call_mcp_tool(server, outcome) ==
    IF server \notin mcp_endpoints
    THEN [error |-> "Unknown MCP server: " \o server]
    ELSE IF outcome.kind = "http" /\ outcome.status < 400
    THEN outcome.body
    ELSE IF outcome.kind = "http"
    THEN [error |-> "500 Server Error: Internal Server Error"]
    ELSE [error |-> "Read timed out. (read timeout=30)"]

\* invoke_bedrock: the string it returns for an outcome of invoke_model.
invoke_bedrock(outcome) ==
    IF outcome.kind = "ok"
    THEN outcome.text
    ELSE "Bedrock error: " \o outcome.text

-----------------------------------------------------------------------------
(* AgentCore.execute_workflow                                              *)
(*                                                                         *)
(* The method is written as a resumable function: given the workflow dict  *)
(* w and the values L returned by the calls made so far, it gives what the *)
(* code does next: an outbound call, or the dict it returns.               *)

Return(body) == [op |-> "return", body |-> body]
McpCall(server, tool, args) == [op |-> "mcp", server |-> server, tool |-> tool, args |-> args]
BedrockCall(prompt) == [op |-> "bedrock", prompt |-> prompt]

\* f"<template>{value}"
Prompt(template, value) == [template |-> template, value |-> value]

\* one StepRecord
Step(label, result) == [step |-> label, result |-> result]

\* Branch with the database test moved before the weather test
Branch_DatabaseFirst(task) ==
    IF Contains("bedrock", task) THEN "bedrock_test"
    ELSE IF Contains("s3", task) THEN "s3_list"
    ELSE IF Contains("database", task) THEN "database_query"
    ELSE IF Contains("weather", task) THEN "weather_analysis"
    ELSE IF Contains("kubernetes", task) \/ Contains("k8s", task) THEN
        IF Contains("scale", task) THEN "k8s_scale"
        ELSE IF Contains("status", task) \/ Contains("health", task) THEN "k8s_health_check"
        ELSE IF Contains("pods", task) THEN "k8s_list_pods"
        ELSE IF Contains("troubleshoot", task) THEN "k8s_troubleshoot"
        ELSE "k8s_general"
    ELSE IF Contains("drone", task) THEN "drone_ingest"
    ELSE IF Contains("glue", task) THEN
        IF Contains("start", task) THEN "glue_job_execution"
        ELSE "glue_jobs_analysis"
    ELSE "unknown"

\* Branch with the pods test moved before the status-or-health test
Branch_PodsFirst(task) ==
    IF Contains("bedrock", task) THEN "bedrock_test"
    ELSE IF Contains("s3", task) THEN "s3_list"
    ELSE IF Contains("weather", task) THEN "weather_analysis"
    ELSE IF Contains("database", task) THEN "database_query"
    ELSE IF Contains("kubernetes", task) \/ Contains("k8s", task) THEN
        IF Contains("scale", task) THEN "k8s_scale"
        ELSE IF Contains("pods", task) THEN "k8s_list_pods"
        ELSE IF Contains("status", task) \/ Contains("health", task) THEN "k8s_health_check"
        ELSE IF Contains("troubleshoot", task) THEN "k8s_troubleshoot"
        ELSE "k8s_general"
    ELSE IF Contains("drone", task) THEN "drone_ingest"
    ELSE IF Contains("glue", task) THEN
        IF Contains("start", task) THEN "glue_job_execution"
        ELSE "glue_jobs_analysis"
    ELSE "unknown"

\* The classification: the chain of "if ... in task.lower()" tests, in the
\* order of the code.  The value is the workflow the selected branch runs.
Branch(task) ==
    IF Contains("bedrock", task) THEN "bedrock_test"
    ELSE IF Contains("s3", task) THEN "s3_list"
    ELSE IF Contains("weather", task) THEN "weather_analysis"
    ELSE IF Contains("database", task) THEN "database_query"
    ELSE IF Contains("kubernetes", task) \/ Contains("k8s", task) THEN
        IF Contains("scale", task) THEN "k8s_scale"
        ELSE IF Contains("status", task) \/ Contains("health", task) THEN "k8s_health_check"
        ELSE IF Contains("pods", task) THEN "k8s_list_pods"
        ELSE IF Contains("troubleshoot", task) THEN "k8s_troubleshoot"
        ELSE "k8s_general"
    ELSE IF Contains("drone", task) THEN "drone_ingest"
    ELSE IF Contains("glue", task) THEN
        IF Contains("start", task) THEN "glue_job_execution"
        ELSE "glue_jobs_analysis"
    ELSE "unknown"

\* bedrock_test that asks the reasoning tool of the AWS server
bedrock_test_ViaServer(w, L) ==
    IF Len(L) = 0
    THEN McpCall("aws", "invoke_bedrock_model",
                 [prompt |-> Get(w, "prompt", "Hello from Nexus Agent Core!")])
    ELSE Return([workflow |-> "bedrock_test", result |-> L[1]])

\* bedrock_test that reports a failure string as an error
bedrock_test_Checked(w, L) ==
    IF Len(L) = 0
    THEN BedrockCall(Get(w, "prompt", "Hello from Nexus Agent Core!"))
    ELSE IF L[1] = "Bedrock error: ThrottlingException"
    THEN Return([workflow |-> "bedrock_test", error |-> L[1]])
    ELSE Return([workflow |-> "bedrock_test", result |-> L[1]])

bedrock_test(w, L) ==
    IF Len(L) = 0
    THEN BedrockCall(Get(w, "prompt", "Hello from Nexus Agent Core!"))
    ELSE Return([workflow |-> "bedrock_test", result |-> L[1]])

s3_list(w, L) ==
    IF Len(L) = 0
    THEN McpCall("aws", "list_s3_buckets", <<>>)
    ELSE Return([workflow |-> "s3_list", result |-> L[1]])

\* WeatherResult that leaves out the store_result step when storing failed
WeatherResult_SkipFailedStore(L) ==
    [workflow |-> "weather_analysis",
     steps |-> IF "error" \in DOMAIN L[3]
               THEN <<Step("get_weather", L[1]), Step("ai_analysis", L[2])>>
               ELSE <<Step("get_weather", L[1]), Step("ai_analysis", L[2]),
                      Step("store_result", L[3])>>]

WeatherResult(L) ==
    [workflow |-> "weather_analysis",
     steps |-> <<Step("get_weather", L[1]),
                 Step("ai_analysis", L[2]),
                 Step("store_result", L[3])>>]

\* weather_analysis that gives up when get_weather returned an error
weather_analysis_Abort(w, L) ==
    LET city == Get(w, "city", "San Francisco") IN
    CASE Len(L) = 0 -> McpCall("custom", "get_weather", [city |-> city])
      [] Len(L) = 1 ->
           IF "error" \in DOMAIN L[1]
           THEN Return([workflow |-> "weather_analysis", error |-> L[1].error])
           ELSE BedrockCall(Prompt("Analyze this weather: ", L[1]))
      [] Len(L) = 2 -> McpCall("custom", "store_data",
                               [key |-> "weather_" \o city, value |-> L[2]])
      [] OTHER -> Return(WeatherResult(L))

\* weather_analysis that reads the stored analysis back before it answers
weather_analysis_ReadBack(w, L) ==
    LET city == Get(w, "city", "San Francisco") IN
    CASE Len(L) = 0 -> McpCall("custom", "get_weather", [city |-> city])
      [] Len(L) = 1 -> BedrockCall(Prompt("Analyze this weather: ", L[1]))
      [] Len(L) = 2 -> McpCall("custom", "store_data",
                               [key |-> "weather_" \o city, value |-> L[2]])
      [] Len(L) = 3 -> McpCall("custom", "get_data", [key |-> "weather_" \o city])
      [] OTHER -> Return(WeatherResult(L))

weather_analysis(w, L) ==
    LET city == Get(w, "city", "San Francisco") IN
    CASE Len(L) = 0 -> McpCall("custom", "get_weather", [city |-> city])
      [] Len(L) = 1 -> BedrockCall(Prompt("Analyze this weather: ", L[1]))
      [] Len(L) = 2 -> McpCall("custom", "store_data",
                               [key |-> "weather_" \o city, value |-> L[2]])
      [] OTHER -> Return(WeatherResult(L))

database_query(w, L) ==
    IF Len(L) = 0
    THEN McpCall("database", "execute_query",
                 [query |-> Get(w, "query", "SELECT * FROM users")])
    ELSE Return([workflow |-> "database_query", result |-> L[1]])

k8s_scale(w, L) ==
    IF Len(L) = 0
    THEN McpCall("k8s", "scale_deployment",
                 [deployment_name |-> Get(w, "deployment_name", "agent-core"),
                  replicas |-> Get(w, "replicas", 3)])
    ELSE Return([workflow |-> "k8s_scale", result |-> L[1]])

HealthResult(L) ==
    [workflow |-> "k8s_health_check",
     steps |-> <<Step("get_status", L[1]), Step("ai_analysis", L[2])>>]

\* k8s_health_check that drops the trace when the analysis is a failure string
k8s_health_check_Gated(w, L) ==
    CASE Len(L) = 0 -> McpCall("k8s", "get_cluster_status", <<>>)
      [] Len(L) = 1 -> BedrockCall(Prompt("Analyze this Kubernetes cluster status: ", L[1]))
      [] OTHER ->
           IF L[2] = "Bedrock error: ThrottlingException"
           THEN Return([workflow |-> "k8s_health_check", error |-> L[2]])
           ELSE Return(HealthResult(L))

k8s_health_check(w, L) ==
    CASE Len(L) = 0 -> McpCall("k8s", "get_cluster_status", <<>>)
      [] Len(L) = 1 -> BedrockCall(Prompt("Analyze this Kubernetes cluster status: ", L[1]))
      [] OTHER -> Return(HealthResult(L))

k8s_list_pods(w, L) ==
    IF Len(L) = 0
    THEN McpCall("k8s", "list_pods", [namespace |-> Get(w, "namespace", "default")])
    ELSE Return([workflow |-> "k8s_list_pods", result |-> L[1]])

TroubleshootResult(L) ==
    [workflow |-> "k8s_troubleshoot",
     steps |-> <<Step("analyze_pod", L[1]), Step("ai_recommendations", L[2])>>]

\* k8s_troubleshoot that looks at the orchestrator's own pod when none is named
k8s_troubleshoot_DefaultPod(w, L) ==
    LET pod_name == IF Truthy(w, "pod_name") THEN w.pod_name ELSE "agent-core" IN
    CASE Len(L) = 0 -> McpCall("k8s", "troubleshoot_pod", [pod_name |-> pod_name])
      [] Len(L) = 1 -> BedrockCall(Prompt("Provide troubleshooting recommendations: ", L[1]))
      [] OTHER -> Return(TroubleshootResult(L))

k8s_troubleshoot(w, L) ==
    IF ~Truthy(w, "pod_name")
    THEN Return([error |-> "pod_name required for troubleshooting"])
    ELSE CASE Len(L) = 0 -> McpCall("k8s", "troubleshoot_pod", [pod_name |-> w.pod_name])
           [] Len(L) = 1 -> BedrockCall(Prompt("Provide troubleshooting recommendations: ", L[1]))
           [] OTHER -> Return(TroubleshootResult(L))

\* k8s_general that sets the default deployment to its default size
k8s_general_Scaling(w, L) ==
    IF Len(L) = 0
    THEN McpCall("k8s", "scale_deployment", [deployment_name |-> "agent-core", replicas |-> 3])
    ELSE Return([workflow |-> "k8s_general", result |-> L[1]])

k8s_general(w, L) ==
    IF Len(L) = 0
    THEN McpCall("k8s", "get_cluster_status", <<>>)
    ELSE Return([workflow |-> "k8s_general", result |-> L[1]])

\* bool(v) of a tagged JSON value
JTruthy(v) ==
    CASE v.type = "object" -> DOMAIN v.value # {}
      [] v.type = "string" -> v.value # ""
      [] OTHER -> FALSE

\* workflow.get("event") or {}
EventOf(w) ==
    IF "event" \in DOMAIN w /\ JTruthy(w.event) THEN w.event ELSE JObject(<<>>)

\* workflow.get("partition_key") or event.get("droneId") or "nexus-drone"
PartitionKeyOf(w, event) ==
    IF "partition_key" \in DOMAIN w /\ JTruthy(w.partition_key) THEN w.partition_key
    ELSE IF "droneId" \in DOMAIN event /\ JTruthy(event.droneId) THEN event.droneId
    ELSE JString("nexus-drone")

\* DroneError that also hands out the trace built so far
DroneError_PartialTrace(transform_result) ==
    [workflow |-> "drone_ingest", error |-> transform_result.error,
     steps |-> <<Step("normalize", transform_result)>>]

DroneError(transform_result) ==
    [workflow |-> "drone_ingest", error |-> transform_result.error]

DroneResult(L) ==
    [workflow |-> "drone_ingest",
     steps |-> <<Step("normalize", L[1]), Step("bedrock_summary", L[2])>>,
     outputStream |-> Get(data_pipelines, "processedStream", JNull)]

\* "error" in transform_result: the normalize step failed
DroneFailed(transform_result) == "error" \in DOMAIN transform_result

drone_ingest(w, L) ==
    LET event == EventOf(w) IN
    IF event.type # "object"
    THEN Return([error |-> "event must be provided as an object"])
    ELSE CASE Len(L) = 0 ->
                McpCall("aws", "process_drone_event",
                        [payload |-> event.value,
                         partitionKey |-> PartitionKeyOf(w, event.value)])
           [] Len(L) = 1 ->
                IF DroneFailed(L[1])
                THEN Return(DroneError(L[1]))
                ELSE BedrockCall(Prompt(
                    "Summarize this drone telemetry for an ops console, highlighting key metrics: ",
                    L[1]))
           [] OTHER -> Return(DroneResult(L))

\* ExtractRunId reading the run id with run_data.get("run_id")
ExtractRunId_Get(start_result) ==
    IF "content" \notin DOMAIN start_result
    THEN [ok |-> FALSE, run_id |-> "", exc |-> "'content'"]
    ELSE IF Len(start_result.content) = 0
    THEN [ok |-> FALSE, run_id |-> "", exc |-> "list index out of range"]
    ELSE LET run_data == json_loads(start_result.content[1].text) IN
         IF ~run_data.ok
         THEN [ok |-> FALSE, run_id |-> "",
               exc |-> "Expecting value: line 1 column 1 (char 0)"]
         ELSE [ok |-> TRUE, run_id |-> Get(run_data.value, "run_id", "None"), exc |-> ""]

\* run_data = json.loads(start_result["content"][0]["text"]); run_data["run_id"]
\* The value is the run id, or the exception the two lines raise.
ExtractRunId(start_result) ==
    IF "content" \notin DOMAIN start_result
    THEN [ok |-> FALSE, run_id |-> "", exc |-> "'content'"]
    ELSE IF Len(start_result.content) = 0
    THEN [ok |-> FALSE, run_id |-> "", exc |-> "list index out of range"]
    ELSE LET run_data == json_loads(start_result.content[1].text) IN
         IF ~run_data.ok
         THEN [ok |-> FALSE, run_id |-> "",
               exc |-> "Expecting value: line 1 column 1 (char 0)"]
         ELSE IF "run_id" \notin DOMAIN run_data.value
         THEN [ok |-> FALSE, run_id |-> "", exc |-> "'run_id'"]
         ELSE [ok |-> TRUE, run_id |-> run_data.value.run_id, exc |-> ""]

GlueError(exc) == [workflow |-> "glue_job_execution", error |-> exc]

GlueResult(L) ==
    [workflow |-> "glue_job_execution",
     steps |-> <<Step("start_job", L[1]),
                 Step("check_status", L[2]),
                 Step("ai_analysis", L[3])>>]

\* glue_job_execution whose analysis prompt is built from the start result
glue_job_execution_StartPrompt(w, L) ==
    LET job_name == Get(w, "job_name", "my-etl-job") IN
    CASE Len(L) = 0 -> McpCall("aws", "start_glue_job", [job_name |-> job_name])
      [] Len(L) = 1 ->
           LET x == ExtractRunId(L[1]) IN
           IF x.ok
           THEN McpCall("aws", "get_glue_job_status",
                        [job_name |-> job_name, run_id |-> x.run_id])
           ELSE Return(GlueError(x.exc))
      [] Len(L) = 2 -> BedrockCall(Prompt("Analyze this Glue job execution: ", L[1]))
      [] OTHER -> Return(GlueResult(L))

\* glue_job_execution that checks the status of the default job
glue_job_execution_DefaultJob(w, L) ==
    LET job_name == Get(w, "job_name", "my-etl-job") IN
    CASE Len(L) = 0 -> McpCall("aws", "start_glue_job", [job_name |-> job_name])
      [] Len(L) = 1 ->
           LET x == ExtractRunId(L[1]) IN
           IF x.ok
           THEN McpCall("aws", "get_glue_job_status",
                        [job_name |-> "my-etl-job", run_id |-> x.run_id])
           ELSE Return(GlueError(x.exc))
      [] Len(L) = 2 -> BedrockCall(Prompt("Analyze this Glue job execution: ", L[2]))
      [] OTHER -> Return(GlueResult(L))

glue_job_execution(w, L) ==
    LET job_name == Get(w, "job_name", "my-etl-job") IN
    CASE Len(L) = 0 -> McpCall("aws", "start_glue_job", [job_name |-> job_name])
      [] Len(L) = 1 ->
           LET x == ExtractRunId(L[1]) IN
           IF x.ok
           THEN McpCall("aws", "get_glue_job_status",
                        [job_name |-> job_name, run_id |-> x.run_id])
           ELSE Return(GlueError(x.exc))
      [] Len(L) = 2 -> BedrockCall(Prompt("Analyze this Glue job execution: ", L[2]))
      [] OTHER -> Return(GlueResult(L))

\* GlueJobsResult with the two steps in the other order
GlueJobsResult_Swapped(L) ==
    [workflow |-> "glue_jobs_analysis",
     steps |-> <<Step("ai_analysis", L[2]), Step("list_jobs", L[1])>>]

GlueJobsResult(L) ==
    [workflow |-> "glue_jobs_analysis",
     steps |-> <<Step("list_jobs", L[1]), Step("ai_analysis", L[2])>>]

\* glue_jobs_analysis that calls list_glue_jobs once more after an error
glue_jobs_analysis_Retry(w, L) ==
    CASE Len(L) = 0 -> McpCall("aws", "list_glue_jobs", <<>>)
      [] Len(L) = 1 ->
           IF "error" \in DOMAIN L[1]
           THEN McpCall("aws", "list_glue_jobs", <<>>)
           ELSE BedrockCall(Prompt(
                    "Analyze these Glue jobs and suggest optimizations: ", L[1]))
      [] OTHER -> Return(GlueJobsResult(L))

glue_jobs_analysis(w, L) ==
    CASE Len(L) = 0 -> McpCall("aws", "list_glue_jobs", <<>>)
      [] Len(L) = 1 -> BedrockCall(Prompt(
             "Analyze these Glue jobs and suggest optimizations: ", L[1]))
      [] OTHER -> Return(GlueJobsResult(L))

\* execute_workflow that runs the general cluster query when nothing matched
execute_workflow_Fallback(w, L) ==
    LET b == Branch(Get(w, "task", <<>>)) IN
    CASE b = "bedrock_test" -> bedrock_test(w, L)
      [] b = "s3_list" -> s3_list(w, L)
      [] b = "weather_analysis" -> weather_analysis(w, L)
      [] b = "database_query" -> database_query(w, L)
      [] b = "k8s_scale" -> k8s_scale(w, L)
      [] b = "k8s_health_check" -> k8s_health_check(w, L)
      [] b = "k8s_list_pods" -> k8s_list_pods(w, L)
      [] b = "k8s_troubleshoot" -> k8s_troubleshoot(w, L)
      [] b = "drone_ingest" -> drone_ingest(w, L)
      [] b = "glue_job_execution" -> glue_job_execution(w, L)
      [] b = "glue_jobs_analysis" -> glue_jobs_analysis(w, L)
      [] OTHER -> k8s_general(w, L)

execute_workflow(w, L) ==
    LET b == Branch(Get(w, "task", <<>>)) IN
    CASE b = "bedrock_test" -> bedrock_test(w, L)
      [] b = "s3_list" -> s3_list(w, L)
      [] b = "weather_analysis" -> weather_analysis(w, L)
      [] b = "database_query" -> database_query(w, L)
      [] b = "k8s_scale" -> k8s_scale(w, L)
      [] b = "k8s_health_check" -> k8s_health_check(w, L)
      [] b = "k8s_list_pods" -> k8s_list_pods(w, L)
      [] b = "k8s_troubleshoot" -> k8s_troubleshoot(w, L)
      [] b = "k8s_general" -> k8s_general(w, L)
      [] b = "drone_ingest" -> drone_ingest(w, L)
      [] b = "glue_job_execution" -> glue_job_execution(w, L)
      [] b = "glue_jobs_analysis" -> glue_jobs_analysis(w, L)
      [] OTHER -> Return([error |-> "Unknown workflow"])

-----------------------------------------------------------------------------
(* The orchestrator's request handler                                      *)

NoRequest == [parsed |-> FALSE, method |-> "", params |-> <<>>]
NoResponse == [status |-> 0, body |-> <<>>]

\* requests.post / invoke_model block the handler: a call is in flight from
\* the step that issues it to the step in which it returns.
Issue(pending, i) == pending \cup {i}
\* Complete for a call that is not waited for
Complete_NoWait(pending, i) == pending
Complete(pending, i) == pending \ {i}

\* The outbound call as it leaves the process: invoke_bedrock puts
\* self.max_token_count in the textGenerationConfig of the body.
Sent(next) ==
    IF next.op = "bedrock"
    THEN [op |-> "bedrock", prompt |-> next.prompt, maxTokenCount |-> max_token_count]
    ELSE next

\* Carry on with what execute_workflow does next: write the response, or
\* issue the next outbound call.  pending: the calls still in flight.
Advance(next, pending) ==
    IF next.op = "return"
    THEN /\ pc' = "responded"
         /\ response' = [status |-> 200, body |-> next.body]
         /\ calls' = calls
         /\ inflight' = pending
    ELSE /\ pc' = IF next.op = "mcp" THEN "await_mcp" ELSE "await_bedrock"
         /\ response' = response
         /\ calls' = Append(calls, Sent(next))
         /\ inflight' = Issue(pending, Len(calls) + 1)

\* do_POST that takes the method name without regard to case
do_POST_AnyCase ==
    /\ pc = "idle"
    /\ \E r \in Requests :
         /\ request' = r
         /\ locals' = <<>>
         /\ IF ~r.parsed
            THEN /\ pc' = "responded"
                 /\ response' = [status |-> 500,
                                 body |-> [error |-> "Expecting value: line 1 column 1 (char 0)"]]
                 /\ UNCHANGED <<branch, calls, inflight>>
            ELSE IF r.method \notin {"workflow/execute", "Workflow/Execute"}
            THEN /\ pc' = "responded"
                 /\ response' = [status |-> 200, body |-> [error |-> "Unknown method"]]
                 /\ UNCHANGED <<branch, calls, inflight>>
            ELSE /\ branch' = Branch(Get(r.params, "task", <<>>))
                 /\ Advance(execute_workflow(r.params, <<>>), inflight)
    /\ UNCHANGED <<max_token_count, workers>>
    /\ UNCHANGED mcp_vars

\* AgentHandler.do_POST, up to the first outbound call of the workflow
do_POST ==
    /\ pc = "idle"
    /\ \E r \in Requests :
         /\ request' = r
         /\ locals' = <<>>
         /\ IF ~r.parsed
            THEN /\ pc' = "responded"
                 /\ response' = [status |-> 500,
                                 body |-> [error |-> "Expecting value: line 1 column 1 (char 0)"]]
                 /\ UNCHANGED <<branch, calls, inflight>>
            ELSE IF r.method # "workflow/execute"
            THEN /\ pc' = "responded"
                 /\ response' = [status |-> 200, body |-> [error |-> "Unknown method"]]
                 /\ UNCHANGED <<branch, calls, inflight>>
            ELSE /\ branch' = Branch(Get(r.params, "task", <<>>))
                 /\ Advance(execute_workflow(r.params, <<>>), inflight)
    /\ UNCHANGED <<max_token_count, workers>>
    /\ UNCHANGED mcp_vars

\* requests.post returns (or raises) inside call_mcp_tool; the workflow goes on
McpReturn ==
    /\ pc = "await_mcp"
    /\ \E o \in McpOutcomes :
         LET c == calls[Len(calls)]
             L == Append(locals, call_mcp_tool(c.server, o))
         IN /\ locals' = L
            /\ Advance(execute_workflow(request.params, L), Complete(inflight, Len(calls)))
    /\ UNCHANGED <<request, branch, max_token_count, workers>>
    /\ UNCHANGED mcp_vars

\* invoke_model returns (or raises) inside invoke_bedrock; the workflow goes on
BedrockReturn ==
    /\ pc = "await_bedrock"
    /\ \E o \in BedrockOutcomes :
         LET L == Append(locals, invoke_bedrock(o))
         IN /\ locals' = L
            /\ Advance(execute_workflow(request.params, L), Complete(inflight, Len(calls)))
    /\ UNCHANGED <<request, branch, max_token_count, workers>>
    /\ UNCHANGED mcp_vars

\* A GET request (no body is read), and the text/plain bodies of the answers
Paths == {"/health", "/metrics", "/nope"}
GetRequest(path) == [parsed |-> FALSE, method |-> "GET", params |-> [path |-> path]]
PlainBody(t) == [plain |-> t]

\* AgentHandler.do_GET
do_GET ==
    /\ pc = "idle"
    /\ \E path \in Paths :
         /\ request' = GetRequest(path)
         /\ response' = CASE path = "/health" -> [status |-> 200, body |-> PlainBody("OK")]
                          [] path = "/metrics" ->
                               [status |-> 200,
                                body |-> PlainBody("agent_core_requests_total 42")]
                          [] OTHER -> [status |-> 404, body |-> <<>>]
    /\ pc' = "responded"
    /\ UNCHANGED <<branch, locals, calls, inflight, max_token_count, workers>>
    /\ UNCHANGED mcp_vars

\* The handler is done; HTTPServer.serve_forever takes the next request.
\* Nothing of the request outlives its response.
serve_forever ==
    /\ pc = "responded"
    /\ pc' = "idle"
    /\ request' = NoRequest
    /\ branch' = ""
    /\ locals' = <<>>
    /\ calls' = <<>>
    /\ inflight' = {}
    /\ response' = NoResponse
    /\ UNCHANGED <<max_token_count, workers>>
    /\ UNCHANGED mcp_vars

\* Two more orchestrator processes, started from the same config, that call
\* the same capability servers.  Each has the handler state of do_POST.
Workers == {1, 2}
IdleWorker == [pc |-> "idle", request |-> NoRequest, locals |-> <<>>, calls |-> <<>>,
               response |-> NoResponse]

\* AgentCore(config) has been constructed and run_server listens
AgentCore(config) ==
    /\ pc = "idle"
    /\ request = NoRequest
    /\ branch = ""
    /\ locals = <<>>
    /\ calls = <<>>
    /\ inflight = {}
    /\ response = NoResponse
    /\ max_token_count = config.max_token_count
    /\ workers = [i \in Workers |-> IdleWorker]

\* main() without --config: the defaults of AgentCoreConfig
InitAgent == AgentCore(load_config(NoSettings))

-----------------------------------------------------------------------------
(* Capability servers: what is shared                                      *)

\* A tools/call envelope
ToolCall(name, args) == Envelope("tools/call", [name |-> name, arguments |-> args])

\* What handle_request ends with: a dict it returns, or an exception that
\* leaves it (exc is str(e)).  state is the server's backing state after it.
Returns(body, state) == [raised |-> FALSE, body |-> body, state |-> state]
Raises(exc, state) == [raised |-> TRUE, body |-> [error |-> exc], state |-> state]

Content(t) == [content |-> <<Text(t)>>]
Error(msg) == [error |-> msg]

\* How a call to an external collaborator ends: it succeeds, it fails with
\* the API's own exception class (ApiException, ClientError, a non-200
\* status), or the collaborator cannot be reached and the client library
\* raises a connection-level exception of another class.
Envs == {"ok", "api_error", "unreachable"}

\* MCPHandler.do_POST around handle_request: json.loads failing, or an
\* exception leaving handle_request, is answered with status 500 and
\* {"error": str(e)}; a returned dict with status 200.
McpRespond(req, out) ==
    IF ~req.parsed
    THEN [status |-> 500, body |-> Error("Expecting value: line 1 column 1 (char 0)")]
    ELSE IF out.raised
    THEN [status |-> 500, body |-> out.body]
    ELSE [status |-> 200, body |-> out.body]

-----------------------------------------------------------------------------
(* CustomMCP (services/mcp/custom/custom-server.py)                        *)

StoreKeys == {"a", "weather_Reno"}
StoreValues == {"v1", "Looks fine."}
Timestamps == {"2026-01-01T00:00:00"}

\* the "name" fields of the descriptors of tools/list, in order
CustomTools == <<"store_data", "get_data", "get_weather">>

\* json.dumps of a data_store entry
DumpEntry(e) ==
    "{\"value\": \"" \o e.value \o "\", \"timestamp\": \"" \o e.timestamp \o "\"}"

\* store_data that keeps the entry a key already has
store_data_KeepFirst(key, value, now, store) ==
    Returns(Content("Stored '" \o key \o "' = '" \o value \o "'"),
            store @@ (key :> [value |-> value, timestamp |-> now]))

store_data(key, value, now, store) ==
    Returns(Content("Stored '" \o key \o "' = '" \o value \o "'"),
            (key :> [value |-> value, timestamp |-> now]) @@ store)

\* get_data that removes the entry it has read
get_data_Consuming(key, store) ==
    IF key \in DOMAIN store
    THEN Returns(Content(DumpEntry(store[key])),
                 [k \in DOMAIN store \ {key} |-> store[k]])
    ELSE Returns(Error("Key '" \o key \o "' not found"), store)

\* get_data answering a miss with an empty content next to the error
get_data_Both(key, store) ==
    IF key \in DOMAIN store
    THEN Returns(Content(DumpEntry(store[key])), store)
    ELSE Returns([content |-> <<>>, error |-> "Key '" \o key \o "' not found"], store)

get_data(key, store) ==
    IF key \in DOMAIN store
    THEN Returns(Content(DumpEntry(store[key])), store)
    ELSE Returns(Error("Key '" \o key \o "' not found"), store)

\* requests.get to the weather API: every exception is caught
get_weather(city, env, store) ==
    CASE env = "ok" ->
           Returns(Content("{\"city\": \"" \o city \o "\", \"temperature\": \"18C\"}"), store)
      [] env = "api_error" ->
           Returns(Error("Weather API error: 503"), store)
      [] OTHER ->
           Returns(Error("Weather request failed: connection refused"), store)

\* CustomHandle that advertises one more tool once something is stored
CustomHandle_Registering(req, env, now, store) ==
    LET params == req.params
        tool_name == Get(params, "name", "")
        args == Get(params, "arguments", <<>>)
    IN
    IF req.method = "tools/list"
    THEN Returns([tools |-> IF DOMAIN store = {}
                            THEN CustomTools
                            ELSE Append(CustomTools, "delete_data")], store)
    ELSE IF req.method = "tools/call" /\ tool_name = "store_data"
    THEN IF "key" \notin DOMAIN args THEN Raises("'key'", store)
         ELSE IF "value" \notin DOMAIN args THEN Raises("'value'", store)
         ELSE store_data(args.key, args.value, now, store)
    ELSE IF req.method = "tools/call" /\ tool_name = "get_data"
    THEN IF "key" \notin DOMAIN args THEN Raises("'key'", store)
         ELSE get_data(args.key, store)
    ELSE IF req.method = "tools/call" /\ tool_name = "get_weather"
    THEN IF "city" \notin DOMAIN args THEN Raises("'city'", store)
         ELSE get_weather(args.city, env, store)
    ELSE Returns(Error("Unknown method"), store)

\* CustomHandle that matches the tool name without regard to case
CustomHandle_AnyCase(req, env, now, store) ==
    LET params == req.params
        given == Get(params, "name", "")
        tool_name == IF given = "Store_Data" THEN "store_data" ELSE given
        args == Get(params, "arguments", <<>>)
    IN
    IF req.method = "tools/list"
    THEN Returns([tools |-> CustomTools], store)
    ELSE IF req.method = "tools/call" /\ tool_name = "store_data"
    THEN IF "key" \notin DOMAIN args THEN Raises("'key'", store)
         ELSE IF "value" \notin DOMAIN args THEN Raises("'value'", store)
         ELSE store_data(args.key, args.value, now, store)
    ELSE IF req.method = "tools/call" /\ tool_name = "get_data"
    THEN IF "key" \notin DOMAIN args THEN Raises("'key'", store)
         ELSE get_data(args.key, store)
    ELSE IF req.method = "tools/call" /\ tool_name = "get_weather"
    THEN IF "city" \notin DOMAIN args THEN Raises("'city'", store)
         ELSE get_weather(args.city, env, store)
    ELSE Returns(Error("Unknown method"), store)

\* CustomMCP.handle_request.  args[...] of an absent key raises KeyError.
CustomHandle(req, env, now, store) ==
    LET params == req.params
        tool_name == Get(params, "name", "")
        args == Get(params, "arguments", <<>>)
    IN
    IF req.method = "tools/list"
    THEN Returns([tools |-> CustomTools], store)
    ELSE IF req.method = "tools/call" /\ tool_name = "store_data"
    THEN IF "key" \notin DOMAIN args THEN Raises("'key'", store)
         ELSE IF "value" \notin DOMAIN args THEN Raises("'value'", store)
         ELSE store_data(args.key, args.value, now, store)
    ELSE IF req.method = "tools/call" /\ tool_name = "get_data"
    THEN IF "key" \notin DOMAIN args THEN Raises("'key'", store)
         ELSE get_data(args.key, store)
    ELSE IF req.method = "tools/call" /\ tool_name = "get_weather"
    THEN IF "city" \notin DOMAIN args THEN Raises("'city'", store)
         ELSE get_weather(args.city, env, store)
    ELSE Returns(Error("Unknown method"), store)

CustomRequests ==
    {BadBody, Envelope("tools/list", <<>>), Envelope("resources/list", <<>>),
     Envelope("tools/call", <<>>)}
    \cup {ToolCall("store_data", [key |-> k, value |-> v]) : k \in StoreKeys, v \in StoreValues}
    \cup {ToolCall("store_data", [value |-> "v1"]), ToolCall("store_data", [key |-> "a"])}
    \cup {ToolCall("get_data", [key |-> k]) : k \in StoreKeys}
    \cup {ToolCall("get_data", <<>>), Envelope("tools/call", [name |-> "get_weather"])}
    \cup {ToolCall("get_weather", [city |-> "Reno"]), ToolCall("Store_Data", [key |-> "a", value |-> "v1"])}

\* MCPHandler.do_POST of the custom server
CustomPost ==
    /\ mcp_pc = "idle"
    /\ \E req \in CustomRequests, env \in Envs, now \in Timestamps :
         LET out == IF req.parsed
                    THEN CustomHandle(req, env, now, data_store)
                    ELSE Returns(<<>>, data_store)
         IN /\ mcp_request' = [server |-> "custom", req |-> req, env |-> <<env>>]
            /\ mcp_response' = McpRespond(req, out)
            /\ data_store' = out.state
    /\ mcp_pc' = "responded"
    /\ UNCHANGED <<db_rows, aws_env, effects>>
    /\ UNCHANGED agent_vars

-----------------------------------------------------------------------------
(* AWSMCP (services/mcp/aws/aws-server.py)                                 *)

TokenCeiling == 3072
DefaultMaxTokens == 100

AWSTools == <<"list_s3_buckets", "invoke_bedrock_model", "list_glue_jobs",
              "start_glue_job", "get_glue_job_status", "process_drone_event">>

Min(a, b) == IF a < b THEN a ELSE b

\* d.get(k) of a dict of JSON values: None when the key is absent
PyGet(d, k) == IF k \in DOMAIN d THEN d[k] ELSE JNull

\* SetDefault that assigns whether or not the key is there
SetDefault_Overwrite(d, k, v) == (k :> v) @@ d

\* d.setdefault(k, v)
SetDefault(d, k, v) == IF k \in DOMAIN d THEN d ELSE (k :> v) @@ d

\* json.dumps of a dict, kept as the dict it encodes
Dumped(obj) == [dumped |-> obj]

\* Every exception of these five tools is caught (except Exception).
list_s3_buckets(env) ==
    IF env = "ok"
    THEN Returns(Content("[\"nexus-raw\", \"nexus-silver\"]"), <<>>)
    ELSE Returns(Error("S3 error: " \o env), <<>>)

\* invoke_bedrock_model that sends max_tokens as it came
invoke_bedrock_model_Unclamped(prompt, max_tokens, model_id, env) ==
    LET sent == [op |-> "invoke_model", modelId |-> model_id,
                 maxTokenCount |-> max_tokens] IN
    IF env = "ok"
    THEN Returns(Content("Looks fine."), <<sent>>)
    ELSE Returns(Error("Bedrock error: " \o env), <<sent>>)

invoke_bedrock_model(prompt, max_tokens, model_id, env) ==
    LET sent == [op |-> "invoke_model", modelId |-> model_id,
                 maxTokenCount |-> Min(max_tokens, TokenCeiling)] IN
    IF env = "ok"
    THEN Returns(Content("Looks fine."), <<sent>>)
    ELSE Returns(Error("Bedrock error: " \o env), <<sent>>)

list_glue_jobs(env) ==
    IF env = "ok"
    THEN Returns(Content("[{\"name\": \"x\", \"role\": \"etl\"}]"), <<>>)
    ELSE Returns(Error("Glue error: " \o env), <<>>)

start_glue_job(job_name, env) ==
    IF env = "ok"
    THEN Returns(Content(RunText), <<[op |-> "start_job_run", JobName |-> job_name]>>)
    ELSE Returns(Error("Glue job start error: " \o env), <<>>)

get_glue_job_status(job_name, run_id, env) ==
    IF env = "ok"
    THEN Returns(Content("{\"job_name\": \"" \o job_name \o "\", \"run_id\": \"" \o run_id
                         \o "\", \"state\": \"RUNNING\"}"), <<>>)
    ELSE Returns(Error("Glue job status error: " \o env), <<>>)

\* Normalize that fills the position fields whether or not there is a position
Normalize_AlwaysPosition(payload, cols) ==
    LET projected == [c \in {cols[i] : i \in DOMAIN cols} \cap DOMAIN payload |-> payload[c]]
        n1 == SetDefault(projected, "drone_id", PyGet(payload, "droneId"))
        n2 == SetDefault(n1, "captured_at", PyGet(payload, "timestamp"))
        has_pos == "position" \in DOMAIN payload /\ JTruthy(payload.position)
        pos == IF has_pos /\ payload.position.type = "object"
               THEN payload.position.value ELSE <<>>
        n3 == SetDefault(SetDefault(SetDefault(n2,
                  "latitude", PyGet(pos, "lat")),
                  "longitude", PyGet(pos, "lon")),
                  "altitude_m", PyGet(pos, "alt"))
        n4 == IF "sensors" \in DOMAIN payload /\ JTruthy(payload.sensors)
              THEN SetDefault(n3, "sensor_snapshot", payload.sensors)
              ELSE n3
    IN [raised |-> has_pos /\ payload.position.type # "object", value |-> n4]

\* Lines 227-236: the projection of the payload on the catalog columns and
\* the defaults.  position.get on a position that is no dict raises.
Normalize(payload, cols) ==
    LET projected == [c \in {cols[i] : i \in DOMAIN cols} \cap DOMAIN payload |-> payload[c]]
        n1 == SetDefault(projected, "drone_id", PyGet(payload, "droneId"))
        n2 == SetDefault(n1, "captured_at", PyGet(payload, "timestamp"))
        has_pos == "position" \in DOMAIN payload /\ JTruthy(payload.position)
        pos == IF has_pos /\ payload.position.type = "object"
               THEN payload.position.value ELSE <<>>
        n3 == IF has_pos
              THEN SetDefault(SetDefault(SetDefault(n2,
                       "latitude", PyGet(pos, "lat")),
                       "longitude", PyGet(pos, "lon")),
                       "altitude_m", PyGet(pos, "alt"))
              ELSE n2
        n4 == IF "sensors" \in DOMAIN payload /\ JTruthy(payload.sensors)
              THEN SetDefault(n3, "sensor_snapshot", payload.sensors)
              ELSE n3
    IN [raised |-> has_pos /\ payload.position.type # "object", value |-> n4]

\* partition_key that prefers the drone identifier to the key it is given
partition_key_DroneFirst(args, payload) ==
    IF "droneId" \in DOMAIN payload /\ JTruthy(payload.droneId) THEN payload.droneId
    ELSE IF "partitionKey" \in DOMAIN args /\ JTruthy(args.partitionKey) THEN args.partitionKey
    ELSE JString("nexus-drone")

\* args.get("partitionKey") or payload.get("droneId") or "nexus-drone"
partition_key(args, payload) ==
    IF "partitionKey" \in DOMAIN args /\ JTruthy(args.partitionKey) THEN args.partitionKey
    ELSE IF "droneId" \in DOMAIN payload /\ JTruthy(payload.droneId) THEN payload.droneId
    ELSE JString("nexus-drone")

\* Only ClientError is caught around glue.get_table and kinesis.put_record.
process_drone_event(args, cols, e1, e2, cfg) ==
    IF ~cfg.stream
    THEN Returns(Error("DRONE_PROCESSED_STREAM environment variable not configured"), <<>>)
    ELSE IF ~cfg.session
    THEN Returns(Error("AWS clients unavailable"), <<>>)
    ELSE LET payload == Get(args, "payload", JNull) IN
    IF payload.type # "object"
    THEN Returns(Error("payload must be a JSON object"), <<>>)
    ELSE IF e1 = "api_error"
    THEN Returns(Error("Glue catalog lookup failed: EntityNotFoundException"), <<>>)
    ELSE IF e1 = "unreachable"
    THEN Raises("Could not connect to the endpoint URL", <<>>)
    ELSE LET n == Normalize(payload.value, cols)
             key == partition_key(args, payload.value)
             put == [op |-> "put_record", PartitionKey |-> key,
                     Data |-> [raw |-> payload.value, normalized |-> n.value]]
         IN
    IF n.raised
    THEN Raises("'str' object has no attribute 'get'", <<>>)
    ELSE IF e2 = "api_error"
    THEN Returns(Error("Failed to publish to processed stream: ResourceNotFoundException"), <<>>)
    ELSE IF e2 = "unreachable"
    THEN Raises("Could not connect to the endpoint URL", <<>>)
    ELSE Returns(Content(Dumped([status |-> "processed", partitionKey |-> key,
                                 attributes |-> DOMAIN n.value])),
                 <<put>>)

\* AWSHandle that asks for credentials only when the tool is one of its own
AWSHandle_KnownOnly(req, cols, e1, e2, cfg) ==
    LET params == req.params
        tool_name == Get(params, "name", "")
        args == Get(params, "arguments", <<>>)
        call == req.method = "tools/call"
    IN
    IF req.method = "tools/list"
    THEN Returns([tools |-> AWSTools], <<>>)
    ELSE IF call /\ ~cfg.session /\ \E n \in DOMAIN AWSTools : AWSTools[n] = tool_name
    THEN Returns(Error("AWS credentials not configured"), <<>>)
    ELSE IF call /\ tool_name = "list_s3_buckets"
    THEN list_s3_buckets(e1)
    ELSE IF call /\ tool_name = "invoke_bedrock_model"
    THEN IF "prompt" \notin DOMAIN args THEN Raises("'prompt'", <<>>)
         ELSE invoke_bedrock_model(args.prompt, Get(args, "max_tokens", DefaultMaxTokens),
                                   Get(args, "model_id", "amazon.titan-text-lite-v1"), e1)
    ELSE IF call /\ tool_name = "list_glue_jobs"
    THEN list_glue_jobs(e1)
    ELSE IF call /\ tool_name = "start_glue_job"
    THEN IF "job_name" \notin DOMAIN args THEN Raises("'job_name'", <<>>)
         ELSE start_glue_job(args.job_name, e1)
    ELSE IF call /\ tool_name = "get_glue_job_status"
    THEN IF "job_name" \notin DOMAIN args THEN Raises("'job_name'", <<>>)
         ELSE IF "run_id" \notin DOMAIN args THEN Raises("'run_id'", <<>>)
         ELSE get_glue_job_status(args.job_name, args.run_id, e1)
    ELSE IF call /\ tool_name = "process_drone_event"
    THEN process_drone_event(args, cols, e1, e2, cfg)
    ELSE Returns(Error("Unknown method"), <<>>)

\* AWSMCP.handle_request
AWSHandle(req, cols, e1, e2, cfg) ==
    LET params == req.params
        tool_name == Get(params, "name", "")
        args == Get(params, "arguments", <<>>)
        call == req.method = "tools/call"
    IN
    IF req.method = "tools/list"
    THEN Returns([tools |-> AWSTools], <<>>)
    ELSE IF call /\ ~cfg.session
    THEN Returns(Error("AWS credentials not configured"), <<>>)
    ELSE IF call /\ tool_name = "list_s3_buckets"
    THEN list_s3_buckets(e1)
    ELSE IF call /\ tool_name = "invoke_bedrock_model"
    THEN IF "prompt" \notin DOMAIN args THEN Raises("'prompt'", <<>>)
         ELSE invoke_bedrock_model(args.prompt, Get(args, "max_tokens", DefaultMaxTokens),
                                   Get(args, "model_id", "amazon.titan-text-lite-v1"), e1)
    ELSE IF call /\ tool_name = "list_glue_jobs"
    THEN list_glue_jobs(e1)
    ELSE IF call /\ tool_name = "start_glue_job"
    THEN IF "job_name" \notin DOMAIN args THEN Raises("'job_name'", <<>>)
         ELSE start_glue_job(args.job_name, e1)
    ELSE IF call /\ tool_name = "get_glue_job_status"
    THEN IF "job_name" \notin DOMAIN args THEN Raises("'job_name'", <<>>)
         ELSE IF "run_id" \notin DOMAIN args THEN Raises("'run_id'", <<>>)
         ELSE get_glue_job_status(args.job_name, args.run_id, e1)
    ELSE IF call /\ tool_name = "process_drone_event"
    THEN process_drone_event(args, cols, e1, e2, cfg)
    ELSE Returns(Error("Unknown method"), <<>>)

\* Telemetry payloads: complete; identifier only; without identifier and
\* with a column that is also a default; with a position that is no object;
\* without position and with a latitude of its own; with an empty position.
Payloads ==
    {[droneId |-> JString("d1"), timestamp |-> JString("t1"), battery |-> JString("87"),
      position |-> JObject([lat |-> JString("39.5"), lon |-> JString("-119.8"),
                            alt |-> JString("120")]),
      sensors |-> JObject([temp |-> JString("21")])],
     [droneId |-> JString("d1")],
     [timestamp |-> JString("t1"), latitude |-> JString("40.0"),
      position |-> JObject([lat |-> JString("39.5")])],
     [droneId |-> JString("d1"), position |-> JString("here")],
     [droneId |-> JString("d1"), latitude |-> JString("40.0")],
     [droneId |-> JString("d1"), position |-> JObject(<<>>)]}

\* Column lists of the catalog table
ColumnLists == {<<>>, <<"battery", "latitude", "timestamp">>}

\* max_tokens of the requests: small, around the ceiling, far above it
TokenCounts == {1, TokenCeiling - 1, TokenCeiling, TokenCeiling + 1, TokenCeiling + 1000}

AWSRequests ==
    {BadBody, Envelope("tools/list", <<>>), Envelope("resources/list", <<>>),
     ToolCall("list_s3_buckets", <<>>), ToolCall("list_glue_jobs", <<>>),
     ToolCall("start_glue_job", [job_name |-> "x"]), ToolCall("start_glue_job", <<>>),
     ToolCall("get_glue_job_status", [job_name |-> "x", run_id |-> "jr_1"]),
     ToolCall("get_glue_job_status", [job_name |-> "x"]),
     ToolCall("invoke_bedrock_model", <<>>), ToolCall("delete_bucket", <<>>),
     ToolCall("process_drone_event", <<>>),
     ToolCall("process_drone_event", [payload |-> JString("oops")])}
    \cup {ToolCall("invoke_bedrock_model", a) :
            a \in {[prompt |-> "hi"]}
                   \cup {[prompt |-> "hi", max_tokens |-> n] : n \in TokenCounts}}
    \cup {ToolCall("process_drone_event", [payload |-> JObject(p)]) : p \in Payloads}
    \cup {ToolCall("process_drone_event",
                   [payload |-> JObject(p), partitionKey |-> JString("pk-7")]) : p \in Payloads}

\* MCPHandler.do_POST of the AWS server
AWSPost ==
    /\ mcp_pc = "idle"
    /\ \E req \in AWSRequests, cols \in ColumnLists, e1 \in Envs, e2 \in Envs :
         LET out == IF req.parsed
                    THEN AWSHandle(req, cols, e1, e2, aws_env)
                    ELSE Returns(<<>>, <<>>)
         IN /\ mcp_request' = [server |-> "aws", req |-> req, env |-> <<e1, e2>>,
                               catalog |-> cols]
            /\ mcp_response' = McpRespond(req, out)
            /\ effects' = out.state
    /\ mcp_pc' = "responded"
    /\ UNCHANGED <<data_store, db_rows, aws_env>>
    /\ UNCHANGED agent_vars

-----------------------------------------------------------------------------
(* KubernetesMCP (services/mcp/k8s/k8s-server.py)                          *)

K8sTools == <<"list_pods", "scale_deployment", "get_cluster_status", "troubleshoot_pod">>

Unreachable == "HTTPSConnectionPool(host='10.0.0.1', port=443): Max retries exceeded"

\* Each tool catches ApiException only: an exception of another class
\* (the API server cannot be reached) leaves the tool.
K8sTool(content, context, env) ==
    CASE env = "ok" -> Returns(Content(content), <<>>)
      [] env = "api_error" -> Returns(Error(context \o ": (403) Forbidden"), <<>>)
      [] OTHER -> Raises(Unreachable, <<>>)

list_pods(namespace, env) ==
    K8sTool("[{\"name\": \"web-1\", \"status\": \"Running\"}]", "Kubernetes API error", env)

\* read_namespaced_deployment (e1), then patch_namespaced_deployment (e2)
scale_deployment(deployment_name, namespace, replicas, e1, e2) ==
    IF e1 # "ok"
    THEN K8sTool("", "Could not scale deployment", e1)
    ELSE IF e2 # "ok"
    THEN K8sTool("", "Could not scale deployment", e2)
    ELSE Returns(Content("Scaled " \o deployment_name \o " to " \o ToString(replicas)
                         \o " replicas"),
                 <<[op |-> "patch_namespaced_deployment", name |-> deployment_name,
                    namespace |-> namespace, replicas |-> replicas]>>)

get_cluster_status(env) ==
    K8sTool("[{\"name\": \"node-1\", \"ready\": \"True\"}]", "Could not get cluster status", env)

troubleshoot_pod(pod_name, namespace, env) ==
    K8sTool("{\"pod_name\": \"" \o pod_name \o "\", \"status\": \"Running\", \"issues\": []}",
            "Could not troubleshoot pod", env)

\* KubernetesMCP.handle_request
K8sHandle(req, e1, e2) ==
    LET params == req.params
        tool_name == Get(params, "name", "")
        args == Get(params, "arguments", <<>>)
        call == req.method = "tools/call"
    IN
    IF req.method = "tools/list"
    THEN Returns([tools |-> K8sTools], <<>>)
    ELSE IF call /\ tool_name = "list_pods"
    THEN list_pods(Get(args, "namespace", "default"), e1)
    ELSE IF call /\ tool_name = "scale_deployment"
    THEN IF "deployment_name" \notin DOMAIN args THEN Raises("'deployment_name'", <<>>)
         ELSE IF "replicas" \notin DOMAIN args THEN Raises("'replicas'", <<>>)
         ELSE scale_deployment(args.deployment_name, Get(args, "namespace", "default"),
                               args.replicas, e1, e2)
    ELSE IF call /\ tool_name = "get_cluster_status"
    THEN get_cluster_status(e1)
    ELSE IF call /\ tool_name = "troubleshoot_pod"
    THEN IF "pod_name" \notin DOMAIN args THEN Raises("'pod_name'", <<>>)
         ELSE troubleshoot_pod(args.pod_name, Get(args, "namespace", "default"), e1)
    ELSE Returns(Error("Unknown method"), <<>>)

K8sRequests ==
    {BadBody, Envelope("tools/list", <<>>), Envelope("resources/list", <<>>),
     ToolCall("list_pods", <<>>), ToolCall("list_pods", [namespace |-> "prod"]),
     ToolCall("scale_deployment", [deployment_name |-> "d", replicas |-> 5]),
     ToolCall("scale_deployment", [deployment_name |-> "d"]),
     ToolCall("get_cluster_status", <<>>),
     ToolCall("troubleshoot_pod", [pod_name |-> "web-1"]),
     ToolCall("troubleshoot_pod", <<>>), ToolCall("LIST_PODS", <<>>)}

\* MCPHandler.do_POST of the Kubernetes server
K8sPost ==
    /\ mcp_pc = "idle"
    /\ \E req \in K8sRequests, e1 \in Envs, e2 \in Envs :
         LET out == IF req.parsed THEN K8sHandle(req, e1, e2) ELSE Returns(<<>>, <<>>)
         IN /\ mcp_request' = [server |-> "k8s", req |-> req, env |-> <<e1, e2>>]
            /\ mcp_response' = McpRespond(req, out)
            /\ effects' = out.state
    /\ mcp_pc' = "responded"
    /\ UNCHANGED <<data_store, db_rows, aws_env>>
    /\ UNCHANGED agent_vars

-----------------------------------------------------------------------------
(* SQLiteMCP (services/mcp/database/sqlite-server.py)                      *)

SQLiteTools == <<"execute_query">>

SampleUsers == {"Alice Johnson", "Bob Smith"}

QSelect == "SELECT name FROM users"
QSelectAll == "SELECT * FROM users"
QSelectLower == "  select name from users"
QSelectBad == "SELECT nope FROM users"
QInsert == "INSERT INTO users (name, email) VALUES ('Carol', 'carol@example.com')"
QDelete == "DELETE FROM users WHERE name = 'Carol'"
QBad == "DROP TABLE nope"
Queries == {QSelect, QSelectAll, QSelectLower, QSelectBad, QInsert, QDelete, QBad}

\* query.strip().upper().startswith("SELECT")
StartsWithSelect(query) == query \in {QSelect, QSelectAll, QSelectLower, QSelectBad}

\* cursor.execute(query) on the users table: the rows after it (within the
\* open transaction), or the sqlite3 error it raises.
Execute(query, rows) ==
    CASE query \in {QSelect, QSelectAll, QSelectLower} -> [ok |-> TRUE, rows |-> rows, exc |-> ""]
      [] query = QSelectBad -> [ok |-> FALSE, rows |-> rows, exc |-> "no such column: nope"]
      [] query = QInsert ->
           IF "Carol" \in rows
           THEN [ok |-> FALSE, rows |-> rows, exc |-> "UNIQUE constraint failed: users.email"]
           ELSE [ok |-> TRUE, rows |-> rows \cup {"Carol"}, exc |-> ""]
      [] query = QDelete -> [ok |-> TRUE, rows |-> rows \ {"Carol"}, exc |-> ""]
      [] OTHER -> [ok |-> FALSE, rows |-> rows, exc |-> "no such table: nope"]

\* str(UnboundLocalError)
UnboundConn == "cannot access local variable 'conn' where it is not associated with a value"

\* execute_query that returns the content result without conn.commit()
execute_query_NoCommit(query, env, rows) ==
    IF env = "unreachable"
    THEN Raises(UnboundConn, rows)
    ELSE IF env = "api_error"
    THEN Returns(Error("database is locked"), rows)
    ELSE LET x == Execute(query, rows) IN
         IF ~x.ok THEN Returns(Error(x.exc), rows)
         ELSE IF StartsWithSelect(query)
         THEN Returns(Content(Dumped(x.rows)), rows)
         ELSE Returns(Content("Query executed. Rows affected: 1"), rows)

\* SQLiteMCP.execute_query.  rows: the committed table.  When
\* sqlite3.connect itself raises, conn is unbound, and conn.close() in the
\* finally clause raises in place of the error dict being returned.
execute_query(query, env, rows) ==
    IF env = "unreachable"
    THEN Raises(UnboundConn, rows)
    ELSE IF env = "api_error"
    THEN Returns(Error("database is locked"), rows)
    ELSE LET x == Execute(query, rows) IN
         IF ~x.ok THEN Returns(Error(x.exc), rows)
         ELSE IF StartsWithSelect(query)
         THEN Returns(Content(Dumped(x.rows)), rows)
         ELSE Returns(Content("Query executed. Rows affected: 1"), x.rows)

\* SQLiteMCP.handle_request
SQLiteHandle(req, env, rows) ==
    LET params == req.params
        tool_name == Get(params, "name", "")
        args == Get(params, "arguments", <<>>)
    IN
    IF req.method = "tools/list"
    THEN Returns([tools |-> SQLiteTools], rows)
    ELSE IF req.method = "tools/call" /\ tool_name = "execute_query"
    THEN IF "query" \notin DOMAIN args THEN Raises("'query'", rows)
         ELSE execute_query(args.query, env, rows)
    ELSE Returns(Error("Unknown method"), rows)

SQLiteRequests ==
    {BadBody, Envelope("tools/list", <<>>), Envelope("resources/list", <<>>),
     ToolCall("execute_query", <<>>), ToolCall("drop_database", <<>>)}
    \cup {ToolCall("execute_query", [query |-> q]) : q \in Queries}

\* MCPHandler.do_POST of the SQLite server
SQLitePost ==
    /\ mcp_pc = "idle"
    /\ \E req \in SQLiteRequests, env \in Envs :
         LET out == IF req.parsed THEN SQLiteHandle(req, env, db_rows) ELSE Returns(<<>>, db_rows)
         IN /\ mcp_request' = [server |-> "database", req |-> req, env |-> <<env>>]
            /\ mcp_response' = McpRespond(req, out)
            /\ db_rows' = out.state
    /\ mcp_pc' = "responded"
    /\ UNCHANGED <<data_store, aws_env, effects>>
    /\ UNCHANGED agent_vars

-----------------------------------------------------------------------------
(* Specifications                                                          *)

NoMcpRequest == [server |-> "", req |-> NoRequest, env |-> <<>>]

\* do_GET answering 503 while the AWS server has no credentials
McpGetResponse_NeedsSession(server, path) ==
    IF path # "/health"
    THEN IF server \in {"aws", "database"} THEN [status |-> 404, body |-> <<>>] ELSE NoResponse
    ELSE IF server = "aws" /\ ~aws_env.session
    THEN [status |-> 503, body |-> PlainBody("degraded")]
    ELSE [status |-> 200, body |-> PlainBody("OK")]

\* What MCPHandler.do_GET of a server writes: OK for /health; for another
\* path the AWS and SQLite servers send 404, the other two send nothing.
McpGetResponse(server, path) ==
    IF path = "/health"
    THEN [status |-> 200, body |-> PlainBody("OK")]
    ELSE IF server \in {"aws", "database"}
    THEN [status |-> 404, body |-> <<>>]
    ELSE NoResponse

\* MCPHandler.do_GET of the four servers
McpGet ==
    /\ mcp_pc = "idle"
    /\ \E server \in mcp_endpoints, path \in Paths :
         /\ mcp_request' = [server |-> server, req |-> GetRequest(path), env |-> <<>>]
         /\ mcp_response' = McpGetResponse(server, path)
    /\ mcp_pc' = "responded"
    /\ UNCHANGED <<data_store, db_rows, aws_env, effects>>
    /\ UNCHANGED agent_vars

\* The response is on the wire; the server waits for the next request.
\* The backing stores (data_store, the database file) outlive the request.
McpDone ==
    /\ mcp_pc = "responded"
    /\ mcp_pc' = "idle"
    /\ mcp_request' = NoMcpRequest
    /\ mcp_response' = NoResponse
    /\ effects' = <<>>
    /\ UNCHANGED <<data_store, db_rows, aws_env>>
    /\ UNCHANGED agent_vars

\* The four servers have been constructed: an empty data_store, the sample
\* users in the database.
InitServers ==
    /\ data_store = <<>>
    /\ db_rows = SampleUsers
    /\ mcp_pc = "idle"
    /\ mcp_request = NoMcpRequest
    /\ mcp_response = NoResponse
    /\ effects = <<>>

\* The orchestrator, with the servers as its environment
Init ==
    /\ InitAgent
    /\ InitServers
    /\ aws_env = [session |-> TRUE, stream |-> TRUE]

Next == do_POST \/ McpReturn \/ BedrockReturn \/ do_GET \/ serve_forever

Spec == Init /\ [][Next]_vars

\* Requests that reach every branch of execute_workflow: tasks of no or one
\* word, the cluster tasks, and the task that starts a Glue job.
BranchTasks == {<<>>} \cup {<<word>> : word \in Words} \cup ClusterTasks
                  \cup {<<"glue", "start">>}
BranchRequests ==
    {BadBody, Envelope("tools/list", <<>>)}
    \cup {Envelope("workflow/execute", [task |-> t] @@ p) : t \in BranchTasks, p \in ParamSets}

\* do_POST for one of these requests
do_POST_Branch == do_POST /\ request' \in BranchRequests

NextReturning == do_POST_Branch \/ McpReturn \/ BedrockReturn \/ do_GET \/ serve_forever

\* The orchestrator when every outbound call returns: requests.post has a
\* timeout of 30 seconds and invoke_model returns or raises, so a handler
\* that waits for a call goes on.
SpecReturning ==
    Init /\ [][NextReturning]_vars /\ WF_vars(McpReturn) /\ WF_vars(BedrockReturn)

\* The orchestrator started with --config: main() loads one of the settings
\* files, then serves as above.
InitConfigured ==
    /\ \E payload \in Settings : AgentCore(load_config(payload))
    /\ InitServers
    /\ aws_env = [session |-> TRUE, stream |-> TRUE]

SpecConfigured == InitConfigured /\ [][Next]_vars

\* The capability servers, each answering requests of any client.  The AWS
\* server starts with or without credentials (init_aws_session) and with or
\* without DRONE_PROCESSED_STREAM set.
InitMCP ==
    /\ InitAgent
    /\ InitServers
    /\ aws_env \in [session : BOOLEAN, stream : BOOLEAN]

NextMCP == CustomPost \/ AWSPost \/ K8sPost \/ SQLitePost \/ McpGet \/ McpDone

SpecMCP == InitMCP /\ [][NextMCP]_vars

\* The five processes side by side, as far as the liveness endpoint is
\* concerned: the four servers as above, and the GET handler of the
\* orchestrator.
NextLiveness == NextMCP \/ do_GET \/ serve_forever

SpecLiveness == InitMCP /\ [][NextLiveness]_vars

-----------------------------------------------------------------------------
(* Workflow executions side by side                                        *)
(*                                                                         *)
(* run_server's HTTPServer takes one request at a time, so executions      *)
(* overlap only across orchestrator processes.  Each process has its own   *)
(* AgentCore (read-only after __init__) and its own execute_workflow call; *)
(* the custom server and its data_store are the ones they all call.        *)

PairRequests ==
    {Envelope("workflow/execute", [task |-> <<"weather">>, city |-> "Reno"]),
     Envelope("workflow/execute", [task |-> <<"weather">>]),
     Envelope("workflow/execute", [task |-> <<"k8s", "status">>]),
     Envelope("workflow/execute", [task |-> <<"check">>])}

\* How requests.post to a server ends for the caller: the server handled
\* the request and the answer arrived, the server handled it and the answer
\* did not arrive in time, or the server was never reached.
Deliveries == {"answered", "lost", "refused"}

\* Answers of the servers other than the custom one
PairOutcomes ==
    {[kind |-> "exc", status |-> 0, body |-> <<>>],
     [kind |-> "http", status |-> 200, body |-> ContentBody(PlainText)]}

\* The values execute_workflow continues with: the locals of another call
\* that is under way, when there is one
Locals_Shared(i, L) ==
    IF \E j \in Workers \ {i} : workers[j].locals # <<>>
    THEN workers[CHOOSE j \in Workers \ {i} : workers[j].locals # <<>>].locals
    ELSE L

\* The values execute_workflow continues with: the locals of its own call
Locals(i, L) == L

\* Advance for the execute_workflow call of process i
WorkerAdvance(i, L) ==
    LET wk == workers[i]
        next == execute_workflow(wk.request.params, Locals(i, L))
    IN IF next.op = "return"
       THEN [wk EXCEPT !.pc = "responded", !.locals = L,
                       !.response = [status |-> 200, body |-> next.body]]
       ELSE [wk EXCEPT !.pc = IF next.op = "mcp" THEN "await_mcp" ELSE "await_bedrock",
                       !.locals = L,
                       !.calls = Append(wk.calls, Sent(next))]

\* do_POST of process i with a workflow/execute request
WorkerPost(i) ==
    /\ workers[i].pc = "idle"
    /\ \E r \in PairRequests :
         LET next == execute_workflow(r.params, <<>>)
             wk == [workers[i] EXCEPT !.request = r]
         IN workers' = [workers EXCEPT ![i] =
                IF next.op = "return"
                THEN [wk EXCEPT !.pc = "responded",
                                !.response = [status |-> 200, body |-> next.body]]
                ELSE [wk EXCEPT !.pc = IF next.op = "mcp" THEN "await_mcp"
                                       ELSE "await_bedrock",
                                !.calls = <<Sent(next)>>]]
    /\ UNCHANGED <<pc, request, branch, locals, calls, inflight, response, max_token_count>>
    /\ UNCHANGED mcp_vars

\* requests.post of process i ends.  A call to the custom server is handled
\* by CustomMCP.handle_request on the data_store as it is at that moment.
WorkerMcpReturn(i) ==
    /\ workers[i].pc = "await_mcp"
    /\ LET c == workers[i].calls[Len(workers[i].calls)] IN
       IF c.server = "custom"
       THEN \E d \in Deliveries, env \in Envs, now \in Timestamps :
              LET req == ToolCall(c.tool, c.args)
                  out == CustomHandle(req, env, now, data_store)
                  ans == McpRespond(req, out)
                  o == IF d = "answered"
                       THEN [kind |-> "http", status |-> ans.status, body |-> ans.body]
                       ELSE [kind |-> "exc", status |-> 0, body |-> <<>>]
              IN /\ data_store' = IF d = "refused" THEN data_store ELSE out.state
                 /\ workers' = [workers EXCEPT ![i] =
                        WorkerAdvance(i, Append(workers[i].locals,
                                                call_mcp_tool(c.server, o)))]
       ELSE \E o \in PairOutcomes :
              /\ data_store' = data_store
              /\ workers' = [workers EXCEPT ![i] =
                     WorkerAdvance(i, Append(workers[i].locals,
                                             call_mcp_tool(c.server, o)))]
    /\ UNCHANGED <<pc, request, branch, locals, calls, inflight, response, max_token_count>>
    /\ UNCHANGED <<db_rows, aws_env, mcp_pc, mcp_request, mcp_response, effects>>

\* invoke_model of process i ends
WorkerBedrockReturn(i) ==
    /\ workers[i].pc = "await_bedrock"
    /\ \E o \in BedrockOutcomes :
         workers' = [workers EXCEPT ![i] =
             WorkerAdvance(i, Append(workers[i].locals, invoke_bedrock(o)))]
    /\ UNCHANGED <<pc, request, branch, locals, calls, inflight, response, max_token_count>>
    /\ UNCHANGED mcp_vars

\* The response of process i is written; its handler takes the next request
WorkerDone(i) ==
    /\ workers[i].pc = "responded"
    /\ workers' = [workers EXCEPT ![i] = IdleWorker]
    /\ UNCHANGED <<pc, request, branch, locals, calls, inflight, response, max_token_count>>
    /\ UNCHANGED mcp_vars

NextPair ==
    \E i \in Workers :
        WorkerPost(i) \/ WorkerMcpReturn(i) \/ WorkerBedrockReturn(i) \/ WorkerDone(i)

SpecPair == Init /\ [][NextPair]_vars

-----------------------------------------------------------------------------
(* Telemetry end to end: the orchestrator's drone workflow whose           *)
(* process_drone_event call is handled by the AWS server, next to clients  *)
(* that call the tool themselves                                           *)

\* partition keys and drone identifiers: absent, empty, given
KeyChoices == {<<>>, [partition_key |-> JString("")], [partition_key |-> JString("pk-7")]}
DroneIds == {[timestamp |-> JString("t1")],
             [timestamp |-> JString("t1"), droneId |-> JString("")],
             [timestamp |-> JString("t1"), droneId |-> JString("d1")]}

TelemetryRequests ==
    {Envelope("workflow/execute", [task |-> <<"drone">>] @@ k) : k \in KeyChoices}
    \cup {Envelope("workflow/execute", [task |-> <<"drone">>, event |-> JObject(e)] @@ k) :
            k \in KeyChoices, e \in DroneIds}

TelemetryToolCalls ==
    {ToolCall("process_drone_event", [payload |-> JObject(e)]) : e \in DroneIds}
    \cup {ToolCall("process_drone_event", [payload |-> JObject(e), partitionKey |-> k]) :
            e \in DroneIds, k \in {JString(""), JString("pk-7")}}

\* AgentHandler.do_POST for a telemetry request
do_POST_Telemetry ==
    /\ pc = "idle"
    /\ \E r \in TelemetryRequests :
         /\ request' = r
         /\ locals' = <<>>
         /\ branch' = Branch(r.params.task)
         /\ Advance(execute_workflow(r.params, <<>>), inflight)
    /\ UNCHANGED <<max_token_count, workers>>
    /\ UNCHANGED mcp_vars

\* The arguments of a call as the server reads them from the JSON body
OnWire(c) ==
    IF c.tool = "process_drone_event"
    THEN ToolCall(c.tool, [payload |-> JObject(c.args.payload),
                           partitionKey |-> c.args.partitionKey])
    ELSE ToolCall(c.tool, c.args)

\* call_mcp_tool of the orchestrator answered by AWSMCP.handle_request
McpReturn_AWS ==
    /\ pc = "await_mcp"
    /\ mcp_pc = "idle"
    /\ calls[Len(calls)].server = "aws"
    /\ \E cols \in ColumnLists, e1 \in Envs, e2 \in Envs :
         LET req == OnWire(calls[Len(calls)])
             out == AWSHandle(req, cols, e1, e2, aws_env)
             ans == McpRespond(req, out)
             L == Append(locals, call_mcp_tool("aws", [kind |-> "http", status |-> ans.status,
                                                       body |-> ans.body]))
         IN /\ mcp_request' = [server |-> "aws", req |-> req, env |-> <<e1, e2>>,
                               catalog |-> cols]
            /\ mcp_response' = ans
            /\ effects' = out.state
            /\ locals' = L
            /\ Advance(execute_workflow(request.params, L), Complete(inflight, Len(calls)))
    /\ mcp_pc' = "responded"
    /\ UNCHANGED <<request, branch, max_token_count, workers>>
    /\ UNCHANGED <<data_store, db_rows, aws_env>>

\* MCPHandler.do_POST of the AWS server for a client's process_drone_event
AWSPost_Telemetry ==
    /\ mcp_pc = "idle"
    /\ \E req \in TelemetryToolCalls, cols \in ColumnLists, e1 \in Envs, e2 \in Envs :
         LET out == AWSHandle(req, cols, e1, e2, aws_env)
         IN /\ mcp_request' = [server |-> "aws", req |-> req, env |-> <<e1, e2>>,
                               catalog |-> cols]
            /\ mcp_response' = McpRespond(req, out)
            /\ effects' = out.state
    /\ mcp_pc' = "responded"
    /\ UNCHANGED <<data_store, db_rows, aws_env>>
    /\ UNCHANGED agent_vars

NextTelemetry ==
    \/ do_POST_Telemetry \/ McpReturn_AWS \/ BedrockReturn \/ serve_forever
    \/ AWSPost_Telemetry \/ McpDone

SpecTelemetry == Init /\ [][NextTelemetry]_vars

-----------------------------------------------------------------------------
(* The registries as tools/list advertises them                            *)

Registry(server) ==
    CASE server = "custom" -> CustomTools
      [] server = "aws" -> AWSTools
      [] server = "k8s" -> K8sTools
      [] server = "database" -> SQLiteTools
      [] OTHER -> <<>>

\* the "required" list of a tool's inputSchema
RequiredArgs(tool) ==
    CASE tool = "store_data" -> {"key", "value"}
      [] tool = "get_data" -> {"key"}
      [] tool = "get_weather" -> {"city"}
      [] tool = "invoke_bedrock_model" -> {"prompt"}
      [] tool = "start_glue_job" -> {"job_name"}
      [] tool = "get_glue_job_status" -> {"job_name", "run_id"}
      [] tool = "process_drone_event" -> {"payload"}
      [] tool = "scale_deployment" -> {"deployment_name", "replicas"}
      [] tool = "troubleshoot_pod" -> {"pod_name"}
      [] tool = "execute_query" -> {"query"}
      [] OTHER -> {}

-----------------------------------------------------------------------------
(* Vocabulary of the properties                                            *)

\* the orchestrator is executing, or has executed, a workflow request
Executing == request.parsed /\ request.method = "workflow/execute"
\* ... and execute_workflow has returned
Finished == Executing /\ pc = "responded"

TaskOf == Get(request.params, "task", <<>>)

\* the keyword groups in their priority order, and the workflows of each
GroupKeywords == <<{"bedrock"}, {"s3"}, {"weather"}, {"database"},
                   {"kubernetes", "k8s"}, {"drone"}, {"glue"}>>
GroupWorkflows == <<{"bedrock_test"}, {"s3_list"}, {"weather_analysis"}, {"database_query"},
                    {"k8s_scale", "k8s_health_check", "k8s_list_pods", "k8s_troubleshoot",
                     "k8s_general"},
                    {"drone_ingest"}, {"glue_job_execution", "glue_jobs_analysis"}>>
HasGroup(task, g) == \E i \in DOMAIN task : lower(task[i]) \in GroupKeywords[g]

\* the workflows that answer with a step trace, and the length of the trace
MultiStep == {"weather_analysis", "k8s_health_check", "k8s_troubleshoot",
              "drone_ingest", "glue_job_execution", "glue_jobs_analysis"}
NSteps(b) == IF b \in {"weather_analysis", "glue_job_execution"} THEN 3 ELSE 2

\* the i-th value returned is the dict of a capability call, and an error
FailedAt(i) == calls[i].op = "mcp" /\ "error" \in DOMAIN locals[i]
SubCallFailed == \E i \in 1..Len(locals) : FailedAt(i)

\* a start_glue_job result from which a run identifier can be read
YieldsRunId(r) ==
    /\ "content" \in DOMAIN r
    /\ Len(r.content) > 0
    /\ json_loads(r.content[1].text).ok
    /\ "run_id" \in DOMAIN json_loads(r.content[1].text).value

GlueStartFailed ==
    branch = "glue_job_execution" /\ Len(locals) >= 1 /\ ~YieldsRunId(locals[1])
DroneNormalizeFailed ==
    branch = "drone_ingest" /\ Len(locals) >= 1 /\ "error" \in DOMAIN locals[1]

\* the response carries the full trace, each step holding the value its call returned
FullTrace ==
    /\ "steps" \in DOMAIN response.body
    /\ Len(response.body.steps) = NSteps(branch)
    /\ Len(calls) = NSteps(branch)
    /\ \A i \in 1..NSteps(branch) : response.body.steps[i].result = locals[i]

Labels(steps) == [i \in 1..Len(steps) |-> steps[i].step]

\* a capability server has answered a tools/call for one of its tools
ToolCalled ==
    /\ mcp_pc = "responded"
    /\ mcp_request.req.parsed
    /\ mcp_request.req.method = "tools/call"
    /\ "name" \in DOMAIN mcp_request.req.params
    /\ \E i \in DOMAIN Registry(mcp_request.server) :
           Registry(mcp_request.server)[i] = mcp_request.req.params.name
CalledTool == mcp_request.req.params.name
CalledArgs == Get(mcp_request.req.params, "arguments", <<>>)
ArgsComplete == RequiredArgs(CalledTool) \subseteq DOMAIN CalledArgs
ArgsValid ==
    /\ ArgsComplete
    /\ CalledTool = "process_drone_event" => CalledArgs.payload.type = "object"

-----------------------------------------------------------------------------
(* Properties                                                              *)

\* C1: a task that contains (in any case) a keyword of group G and no
\* keyword of an earlier group runs a workflow of group G; so of two groups
\* present in the task, the earlier one is selected.
C1_ClassifierPriority ==
    Executing =>
        \A g \in DOMAIN GroupKeywords :
            (HasGroup(TaskOf, g) /\ \A h \in 1..(g - 1) : ~HasGroup(TaskOf, h))
                => branch \in GroupWorkflows[g]

\* two groups in the task, the later one written first and in capitals
C1_Witness ==
    /\ Executing
    /\ Len(TaskOf) = 2
    /\ TaskOf[1] = "GLUE"
    /\ HasGroup(TaskOf, 7)
    /\ HasGroup(TaskOf, 3)
    /\ branch = "weather_analysis"

C3_ToolExceptionsNeverSurface ==
    (ToolCalled /\ ArgsValid) => mcp_response.status = 200

\* C4: a tools/call of a registered tool that lacks a required argument is
\* answered with status 200 and {error}, and the backing state is unchanged.
C4_MissingArgumentIsAnError ==
    [][(ToolCalled' /\ ~ArgsComplete') =>
          /\ mcp_response'.status = 200
          /\ "error" \in DOMAIN mcp_response'.body
          /\ data_store' = data_store
          /\ db_rows' = db_rows
          /\ effects' = <<>>]_vars

\* C5: the answer to a tools/call of a registered tool with valid arguments
\* has exactly one of the keys content and error.
C5_ContentXorError ==
    (ToolCalled /\ ArgsValid) =>
        Cardinality(DOMAIN mcp_response.body \cap {"content", "error"}) = 1

\* get_data of a stored key answered with content, with status 200
C5_Witness ==
    /\ ToolCalled
    /\ ArgsValid
    /\ CalledTool = "get_data"
    /\ mcp_response.status = 200
    /\ DOMAIN mcp_response.body = {"content"}

\* C6: in the glue start workflow, once the start step has returned a value
\* that yields no run identifier, execute_workflow has returned
\* {workflow: "glue_job_execution", error} without steps, and start_glue_job
\* is the only call it made.
C6_GlueStartFailure ==
    (Executing /\ GlueStartFailed) =>
        /\ pc = "responded"
        /\ DOMAIN response.body = {"workflow", "error"}
        /\ response.body.workflow = "glue_job_execution"
        /\ Len(calls) = 1
        /\ calls[1].op = "mcp"
        /\ calls[1].tool = "start_glue_job"

\* the start step returned parseable JSON without run_id
C6_Witness ==
    /\ Finished
    /\ GlueStartFailed
    /\ locals[1] = ContentBody(NoRunText)
    /\ response.body.error = "'run_id'"

\* C7: every dict execute_workflow returns has exactly one of the keys
\* result, steps and error.
C7_ResultStepsOrError ==
    Finished => Cardinality(DOMAIN response.body \cap {"result", "steps", "error"}) = 1

\* an error response after a call was made: no trace in it
C7_Witness ==
    /\ Finished
    /\ Len(calls) >= 1
    /\ "error" \in DOMAIN response.body
    /\ "steps" \notin DOMAIN response.body
    /\ branch = "drone_ingest"

\* C8: the weather workflow always ends with {workflow: "weather_analysis",
\* steps} of the three steps get_weather, ai_analysis, store_result.
C8_WeatherThreeSteps ==
    (Finished /\ branch = "weather_analysis") =>
        /\ DOMAIN response.body = {"workflow", "steps"}
        /\ response.body.workflow = "weather_analysis"
        /\ Labels(response.body.steps) = <<"get_weather", "ai_analysis", "store_result">>

\* all three calls of a weather execution failed
C8_Witness ==
    /\ Finished
    /\ branch = "weather_analysis"
    /\ FailedAt(1)
    /\ locals[2] = "Bedrock error: ThrottlingException"
    /\ FailedAt(3)

\* the labels of each workflow's trace, and the calls behind them
ExpectedLabels(wf) ==
    CASE wf = "weather_analysis" -> <<"get_weather", "ai_analysis", "store_result">>
      [] wf = "k8s_health_check" -> <<"get_status", "ai_analysis">>
      [] wf = "k8s_troubleshoot" -> <<"analyze_pod", "ai_recommendations">>
      [] wf = "drone_ingest" -> <<"normalize", "bedrock_summary">>
      [] wf = "glue_job_execution" -> <<"start_job", "check_status", "ai_analysis">>
      [] wf = "glue_jobs_analysis" -> <<"list_jobs", "ai_analysis">>
      [] OTHER -> <<>>
ExpectedCalls(wf) ==
    CASE wf = "weather_analysis" -> <<"get_weather", "bedrock", "store_data">>
      [] wf = "k8s_health_check" -> <<"get_cluster_status", "bedrock">>
      [] wf = "k8s_troubleshoot" -> <<"troubleshoot_pod", "bedrock">>
      [] wf = "drone_ingest" -> <<"process_drone_event", "bedrock">>
      [] wf = "glue_job_execution" -> <<"start_glue_job", "get_glue_job_status", "bedrock">>
      [] wf = "glue_jobs_analysis" -> <<"list_glue_jobs", "bedrock">>
      [] OTHER -> <<>>
CallName(c) == IF c.op = "mcp" THEN c.tool ELSE "bedrock"

\* C9: a response with steps has the labels its workflow id fixes, the calls
\* were issued in that order, and step i holds what the i-th call returned.
C9_StepOrderFixed ==
    (Finished /\ "steps" \in DOMAIN response.body) =>
        /\ Labels(response.body.steps) = ExpectedLabels(response.body.workflow)
        /\ [i \in 1..Len(calls) |-> CallName(calls[i])] = ExpectedCalls(response.body.workflow)
        /\ \A i \in 1..Len(calls) : response.body.steps[i].result = locals[i]

\* a glue start execution that ran its three steps, the status check failed
C9_Witness ==
    /\ Finished
    /\ branch = "glue_job_execution"
    /\ "steps" \in DOMAIN response.body
    /\ FailedAt(2)

\* C10: at most one outbound call is in flight, it is the last one issued,
\* and every call before it has returned.
C10_OneCallInFlight ==
    /\ Cardinality(inflight) <= 1
    /\ inflight \subseteq {Len(calls)}
    /\ (pc \in {"await_mcp", "await_bedrock"}) <=> (inflight # {})
    /\ Len(locals) = Len(calls) - Cardinality(inflight)

\* the third call of a workflow in flight, the two before it returned
C10_Witness ==
    /\ pc = "await_mcp"
    /\ Len(calls) = 3
    /\ inflight = {3}
    /\ Len(locals) = 2

\* what an outbound call addresses: a tool of a server, or the model
CallTarget(c) == IF c.op = "mcp" THEN <<c.server, c.tool>> ELSE <<"bedrock", "invoke_model">>

\* what execute_workflow does next, without the values it passes on
Shape(next) ==
    IF next.op = "return"
    THEN <<"return", DOMAIN next.body>>
    ELSE <<"call", CallTarget(next)>>

\* the dicts call_mcp_tool makes of a timeout and of a 4xx/5xx status
TimedOut == [kind |-> "exc", status |-> 0, body |-> <<>>]
TransportErrors ==
    {call_mcp_tool("aws", o) : o \in {x \in McpOutcomes : x.kind = "exc" \/ x.status >= 400}}
TransportFailedAt(i) == calls[i].op = "mcp" /\ locals[i] \in TransportErrors

\* C11: within one execution no tool and no model is called twice; a call
\* that timed out (or failed in transport) has returned {error: string}, and
\* the workflow goes on from it as from an error dict answered by the server.
C11_NoRetry ==
    /\ \A i, j \in 1..Len(calls) :
           i # j => CallTarget(calls[i]) # CallTarget(calls[j])
    /\ \A i \in 1..Len(locals) :
           TransportFailedAt(i) =>
               /\ DOMAIN locals[i] = {"error"}
               /\ Shape(execute_workflow(request.params, SubSeq(locals, 1, i)))
                  = Shape(execute_workflow(request.params,
                                           Append(SubSeq(locals, 1, i - 1), ErrorBody)))

\* the list step of the glue list workflow timed out; the analysis still ran
C11_Witness ==
    /\ Finished
    /\ branch = "glue_jobs_analysis"
    /\ locals[1] = call_mcp_tool("aws", TimedOut)
    /\ Len(calls) = 2
    /\ "steps" \in DOMAIN response.body

\* the task contains no keyword of any group
NoGroup(task) == \A g \in DOMAIN GroupKeywords : ~HasGroup(task, g)

\* C12: a workflow request whose task matches no keyword group is answered
\* with exactly {error: "Unknown workflow"}, and no call is issued for it.
C12_UnknownWorkflow ==
    (Executing /\ NoGroup(TaskOf)) =>
        /\ pc = "responded"
        /\ response = [status |-> 200, body |-> [error |-> "Unknown workflow"]]
        /\ calls = <<>>
        /\ locals = <<>>
        /\ inflight = {}

\* a task of a sub-keyword of the glue group and a word that is no keyword
C12_Witness ==
    /\ Finished
    /\ TaskOf = <<"check", "start">>
    /\ response.body = [error |-> "Unknown workflow"]
    /\ calls = <<>>

\* the sub-groups of the cluster-ops group in their order, and their workflows
SubGroupKeywords == <<{"scale"}, {"status", "health"}, {"pods"}, {"troubleshoot"}>>
SubGroupWorkflow == <<"k8s_scale", "k8s_health_check", "k8s_list_pods", "k8s_troubleshoot">>
HasSubGroup(task, k) == \E i \in DOMAIN task : lower(task[i]) \in SubGroupKeywords[k]
\* the cluster-ops group is the one selected for the task
InClusterOps(task) == HasGroup(task, 5) /\ \A h \in 1..4 : ~HasGroup(task, h)

\* C13: a cluster-ops task runs the workflow of the earliest sub-group (scale,
\* status-or-health, pods, troubleshoot) it has a keyword of, and k8s_general
\* when it has none; the workflow id in the response, if any, is that one.
C13_SubClassifierPriority ==
    (Executing /\ InClusterOps(TaskOf)) =>
        /\ \A k \in DOMAIN SubGroupKeywords :
               (HasSubGroup(TaskOf, k) /\ \A j \in 1..(k - 1) : ~HasSubGroup(TaskOf, j))
                   => branch = SubGroupWorkflow[k]
        /\ (\A k \in DOMAIN SubGroupKeywords : ~HasSubGroup(TaskOf, k))
               => branch = "k8s_general"
        /\ (pc = "responded" /\ "workflow" \in DOMAIN response.body)
               => response.body.workflow = branch

\* troubleshoot written first, status last: the health check runs
C13_Witness ==
    /\ Finished
    /\ TaskOf = <<"troubleshoot", "k8s", "status">>
    /\ response.body.workflow = "k8s_health_check"

\* a capability server has answered a request that names no tool of its
\* registry: another method than tools/list and tools/call, or a tools/call
\* of a name that is (case-sensitively) none of the registered ones
NotInRegistry(server, name) ==
    \A i \in DOMAIN Registry(server) : Registry(server)[i] # name
UnknownRequested ==
    /\ mcp_pc = "responded"
    /\ mcp_request.req.parsed
    /\ \/ mcp_request.req.method \notin {"tools/list", "tools/call"}
       \/ /\ mcp_request.req.method = "tools/call"
          /\ NotInRegistry(mcp_request.server, Get(mcp_request.req.params, "name", ""))

\* C14: such a request is answered with {error} and no content (the unknown
\* method error, or the missing-credentials error of the AWS server), no
\* tool writes to a collaborator, and the backing state stays as it was.
C14_UnknownToolOrMethod ==
    [][UnknownRequested' =>
          /\ mcp_response'.status = 200
          /\ mcp_response'.body \in {Error("Unknown method"),
                                      Error("AWS credentials not configured")}
          /\ "content" \notin DOMAIN mcp_response'.body
          /\ data_store' = data_store
          /\ db_rows' = db_rows
          /\ effects' = <<>>]_vars

\* store_data spelled with capitals, sent to a store that holds a value
C14_Witness ==
    /\ UnknownRequested
    /\ mcp_request.server = "custom"
    /\ Get(mcp_request.req.params, "name", "") = "Store_Data"
    /\ "a" \in DOMAIN data_store
    /\ data_store["a"].value = "Looks fine."
    /\ mcp_response.body = Error("Unknown method")

\* a capability server has answered a tools/list
ListRequested ==
    /\ mcp_pc = "responded"
    /\ mcp_request.req.parsed
    /\ mcp_request.req.method = "tools/list"

\* C15: whatever requests a server has answered before (and whatever they
\* left in its backing state), tools/list is answered with the descriptors
\* the server was built with, in the same order, each name once.
C15_RegistryReadOnly ==
    ListRequested =>
        /\ mcp_response = [status |-> 200, body |-> [tools |-> Registry(mcp_request.server)]]
        /\ \A i, j \in DOMAIN mcp_response.body.tools :
               i # j => mcp_response.body.tools[i] # mcp_response.body.tools[j]

\* tools/list of the custom server after two values were stored
C15_Witness ==
    /\ ListRequested
    /\ mcp_request.server = "custom"
    /\ DOMAIN data_store = StoreKeys
    /\ mcp_response.body.tools = <<"store_data", "get_data", "get_weather">>

\* the strings invoke_bedrock can return
ReasoningOutputs == {invoke_bedrock(o) : o \in BedrockOutcomes}

\* the values returned so far, had the reasoning call returned r instead
AltLocals(r) ==
    [i \in DOMAIN locals |-> IF calls[i].op = "bedrock" THEN r ELSE locals[i]]

\* What can be seen of one move of execute_workflow: of a return, the
\* workflow id, which of error/steps/result it has, and the step labels; of
\* a tool call, the ToolCallRequest and its server.
SeenReturn(body) ==
    [workflow |-> Get(body, "workflow", ""),
     keys |-> DOMAIN body \cap {"error", "steps", "result"},
     labels |-> IF "steps" \in DOMAIN body THEN Labels(body.steps) ELSE <<>>]
Seen(next) ==
    CASE next.op = "return" -> SeenReturn(next.body)
      [] next.op = "mcp" -> [server |-> next.server, name |-> next.tool, arguments |-> next.args]
      [] OTHER -> [model |-> "invoke_model"]
\* the same, without the argument that carries the reasoning output to the store
SeenButStoredValue(next) ==
    IF next.op = "mcp" /\ next.tool = "store_data"
    THEN [server |-> next.server, name |-> next.tool, arguments |-> [key |-> next.args.key]]
    ELSE Seen(next)

\* the moves of the execution that got the values L
Moves(L) == [k \in 0..Len(L) |-> execute_workflow(request.params, SubSeq(L, 1, k))]

\* C16 as stated: an execution that differs from this one in the reasoning
\* output only has the same workflow id, issues the same tool calls, and
\* answers with the same labels and the same one of error/steps/result.
C16_SameCallsWhateverReasoning ==
    Executing =>
        \A r \in ReasoningOutputs :
            \A k \in 0..Len(locals) :
                Seen(Moves(AltLocals(r))[k]) = Seen(Moves(locals)[k])

\* C16 amended: the same, up to the value argument of the store_data call of
\* the weather workflow, which is the reasoning output itself.
C16_SameCallsButStoredValue ==
    Executing =>
        \A r \in ReasoningOutputs :
            \A k \in 0..Len(locals) :
                SeenButStoredValue(Moves(AltLocals(r))[k]) = SeenButStoredValue(Moves(locals)[k])

\* a weather execution whose analysis was the failure string, stored as such
C16_Witness ==
    /\ Finished
    /\ branch = "weather_analysis"
    /\ locals[2] = "Bedrock error: ThrottlingException"
    /\ calls[3].args.value = "Bedrock error: ThrottlingException"
    /\ ~FailedAt(3)

\* the i-th call was a reasoning call, and invoke_model raised in it
ReasoningFailedAt(i) ==
    calls[i].op = "bedrock" /\ locals[i] = "Bedrock error: ThrottlingException"

\* C17: every reasoning call returns a string, the failure message when
\* invoke_model raised; the workflow then goes on as after a success (same
\* next move), and its response has status 200 and no error.
C17_ReasoningNeverRaises ==
    \A i \in 1..Len(locals) :
        /\ calls[i].op = "bedrock" =>
               locals[i] \in {"Looks fine.", "Bedrock error: ThrottlingException"}
        /\ ReasoningFailedAt(i) =>
               /\ Shape(Moves(locals)[i]) = Shape(Moves(AltLocals("Looks fine."))[i])
               /\ pc = "responded" =>
                      /\ response.status = 200
                      /\ "error" \notin DOMAIN response.body

\* the reasoning test workflow answered with the failure string as its result
C17_Witness ==
    /\ Finished
    /\ branch = "bedrock_test"
    /\ ReasoningFailedAt(1)
    /\ response = [status |-> 200,
                   body |-> [workflow |-> "bedrock_test",
                             result |-> "Bedrock error: ThrottlingException"]]

\* the AWS server (with credentials) has answered a tools/call of
\* invoke_bedrock_model that carries a prompt
ReasoningToolCalled ==
    /\ ToolCalled
    /\ mcp_request.server = "aws"
    /\ CalledTool = "invoke_bedrock_model"
    /\ ArgsComplete
    /\ aws_env.session
MaxTokensGiven == Get(CalledArgs, "max_tokens", DefaultMaxTokens)

\* C18: the one invoke_model call made for it carries maxTokenCount =
\* min(max_tokens, 3072) (max_tokens = 100 when absent), and the request is
\* answered with content whenever the model answers, above the ceiling too.
C18_TokenClamp ==
    ReasoningToolCalled =>
        /\ Len(effects) = 1
        /\ effects[1].op = "invoke_model"
        /\ effects[1].maxTokenCount =
               (IF MaxTokensGiven > TokenCeiling THEN TokenCeiling ELSE MaxTokensGiven)
        /\ effects[1].maxTokenCount <= TokenCeiling
        /\ mcp_response.status = 200
        /\ mcp_request.env[1] = "ok" => DOMAIN mcp_response.body = {"content"}

\* max_tokens = ceiling + 1000: answered, and 3072 was sent
C18_Witness ==
    /\ ReasoningToolCalled
    /\ MaxTokensGiven = TokenCeiling + 1000
    /\ effects[1].maxTokenCount = TokenCeiling
    /\ DOMAIN mcp_response.body = {"content"}

\* C19: whatever token count the settings file configures, every reasoning
\* call of the orchestrator sends a maxTokenCount of at most the ceiling
\* (3072, the ceiling of the reasoning tool of the AWS server).
C19_AdapterTokensBounded ==
    \A i \in 1..Len(calls) :
        calls[i].op = "bedrock" => calls[i].maxTokenCount <= TokenCeiling

\* the instruction each workflow puts before the interpolated value
Template(wf) ==
    CASE wf = "weather_analysis" -> "Analyze this weather: "
      [] wf = "k8s_health_check" -> "Analyze this Kubernetes cluster status: "
      [] wf = "k8s_troubleshoot" -> "Provide troubleshooting recommendations: "
      [] wf = "drone_ingest" ->
           "Summarize this drone telemetry for an ops console, highlighting key metrics: "
      [] wf = "glue_job_execution" -> "Analyze this Glue job execution: "
      [] wf = "glue_jobs_analysis" -> "Analyze these Glue jobs and suggest optimizations: "
      [] OTHER -> ""

\* C20: a reasoning call that follows another step sends the workflow's
\* instruction with the whole value the step just before it returned; the
\* third call of the weather workflow is store_data of the analysis returned
\* by the second, under the key "weather_" + city.
C20_PromptFromPrecedingStep ==
    /\ \A i \in 2..Len(calls) :
           calls[i].op = "bedrock" =>
               /\ calls[i - 1].op = "mcp"
               /\ calls[i].prompt = Prompt(Template(branch), locals[i - 1])
    /\ (branch = "weather_analysis" /\ Len(calls) = 3) =>
           /\ calls[3].op = "mcp"
           /\ calls[3].server = "custom"
           /\ calls[3].tool = "store_data"
           /\ calls[3].args = [key |-> "weather_" \o Get(request.params, "city", "San Francisco"),
                               value |-> locals[2]]
    /\ (pc = "responded" /\ branch = "weather_analysis") =>
           response.body.steps[2].result = calls[3].args.value

\* a weather execution for Reno: the failed lookup went into the prompt,
\* the analysis into the store
C20_Witness ==
    /\ Finished
    /\ branch = "weather_analysis"
    /\ FailedAt(1)
    /\ calls[2].prompt.value = locals[1]
    /\ calls[3].args = [key |-> "weather_Reno", value |-> "Looks fine."]

\* a capability server, resp. the orchestrator, has answered a POST
McpPostAnswered == mcp_pc = "responded" /\ mcp_request.req.method # "GET"
PostAnswered == pc = "responded" /\ request.method # "GET"

\* C21: a POST is answered with status 500 when its body is no JSON
\* envelope, and with status 200 when it is one, by the capability servers
\* and by the orchestrator.
C21_StatusTellsTransportFromApplication ==
    /\ McpPostAnswered =>
           mcp_response.status = (IF mcp_request.req.parsed THEN 200 ELSE 500)
    /\ PostAnswered =>
           response.status = (IF request.parsed THEN 200 ELSE 500)

\* C22: a parsed request of the orchestrator whose method is not
\* workflow/execute is answered with status 200 and {error: "Unknown
\* method"}; nothing was classified and no call was issued for it.
C22_UnknownMethod ==
    (PostAnswered /\ request.parsed /\ request.method # "workflow/execute") =>
        /\ response = [status |-> 200, body |-> [error |-> "Unknown method"]]
        /\ branch = ""
        /\ calls = <<>>
        /\ locals = <<>>
        /\ inflight = {}

\* the method spelled with capitals, with a task that names a workflow
C22_Witness ==
    /\ PostAnswered
    /\ request.method = "Workflow/Execute"
    /\ Get(request.params, "task", <<>>) = <<"bedrock">>
    /\ response.body = [error |-> "Unknown method"]
    /\ calls = <<>>

\* the Kubernetes server has answered a scale_deployment with both required
\* arguments while the API server could not be reached (at the read of
\* the deployment, or at its patch)
ScaleWhileUnreachable ==
    /\ ToolCalled
    /\ mcp_request.server = "k8s"
    /\ CalledTool = "scale_deployment"
    /\ ArgsComplete
    /\ \/ mcp_request.env[1] = "unreachable"
       \/ mcp_request.env[1] = "ok" /\ mcp_request.env[2] = "unreachable"

\* C23: it is answered with status 200 and {error} whose text names the
\* scale operation, and nothing was patched.
C23_ScaleErrorCarriesContext ==
    ScaleWhileUnreachable =>
        /\ mcp_response.status = 200
        /\ mcp_response.body = Error("Could not scale deployment: " \o Unreachable)
        /\ effects = <<>>

\* the AWS server has answered a process_drone_event by publishing a record
DronePublished ==
    /\ ToolCalled
    /\ mcp_request.server = "aws"
    /\ CalledTool = "process_drone_event"
    /\ Len(effects) = 1
    /\ effects[1].op = "put_record"
DronePayload == CalledArgs.payload.value
CatalogColumns == {mcp_request.catalog[i] : i \in DOMAIN mcp_request.catalog}

\* the default fields, and where the value of each is taken from
HasPosition(payload) == "position" \in DOMAIN payload /\ JTruthy(payload.position)
HasSensors(payload) == "sensors" \in DOMAIN payload /\ JTruthy(payload.sensors)
PositionFields == {"latitude", "longitude", "altitude_m"}
DefaultFields(payload) ==
    {"drone_id", "captured_at"}
    \cup (IF HasPosition(payload) THEN PositionFields ELSE {})
    \cup (IF HasSensors(payload) THEN {"sensor_snapshot"} ELSE {})
DefaultValue(payload, k) ==
    CASE k = "drone_id" -> PyGet(payload, "droneId")
      [] k = "captured_at" -> PyGet(payload, "timestamp")
      [] k = "latitude" -> PyGet(payload.position.value, "lat")
      [] k = "longitude" -> PyGet(payload.position.value, "lon")
      [] k = "altitude_m" -> PyGet(payload.position.value, "alt")
      [] OTHER -> payload.sensors

\* C24: the normalized record of a published event has as keys the catalog
\* columns that are keys of the payload and the default fields; a column
\* has the payload's value, a default field that is no such column has its
\* default; the attributes reported are these keys.  Nothing else (the
\* partition key, the state of the server) enters the record.
C24_TelemetryProjection ==
    DronePublished =>
        LET normalized == effects[1].Data.normalized
            projected == CatalogColumns \cap DOMAIN DronePayload
        IN /\ DOMAIN normalized = projected \cup DefaultFields(DronePayload)
           /\ \A k \in DOMAIN normalized :
                  normalized[k] = (IF k \in projected
                                   THEN DronePayload[k]
                                   ELSE DefaultValue(DronePayload, k))
           /\ effects[1].Data.raw = DronePayload
           /\ mcp_response.body.content[1].text.dumped.attributes = DOMAIN normalized

\* the payload's own latitude, a catalog column, kept against the position's
C24_Witness ==
    /\ DronePublished
    /\ "latitude" \in CatalogColumns \cap DOMAIN DronePayload
    /\ HasPosition(DronePayload)
    /\ effects[1].Data.normalized["latitude"] = JString("40.0")
    /\ effects[1].Data.normalized["longitude"] = JNull

\* the AWS server, with its clients and its stream configured, has answered
\* a process_drone_event whose payload is an object, and the catalog and
\* the stream answered
DroneHandled ==
    /\ ToolCalled
    /\ mcp_request.server = "aws"
    /\ CalledTool = "process_drone_event"
    /\ ArgsValid
    /\ aws_env.session
    /\ aws_env.stream
CollaboratorsUp == mcp_request.env = <<"ok", "ok">>

\* C25: an event without position is then answered with content (status
\* 200), one record is published, and its normalized record has the
\* keys latitude, longitude, altitude_m only as columns of the payload.
C25_NoPositionStillNormalizes ==
    (DroneHandled /\ CollaboratorsUp /\ "position" \notin DOMAIN DronePayload) =>
        /\ mcp_response.status = 200
        /\ DOMAIN mcp_response.body = {"content"}
        /\ Len(effects) = 1
        /\ effects[1].op = "put_record"
        /\ DOMAIN effects[1].Data.normalized \cap PositionFields
              \subseteq CatalogColumns \cap DOMAIN DronePayload

\* no position, and no column of the catalog: none of the three keys
C25_Witness ==
    /\ DroneHandled
    /\ CollaboratorsUp
    /\ DronePayload = [droneId |-> JString("d1")]
    /\ Len(effects) = 1
    /\ DOMAIN effects[1].Data.normalized = {"drone_id", "captured_at"}

\* the optional fields that the payload has are of the type the projection reads
OptionalWellFormed(payload) ==
    "position" \in DOMAIN payload /\ JTruthy(payload.position)
        => payload.position.type = "object"

\* C26: with the catalog and the stream answering, an event that has its
\* drone identifier is normalized and published whatever optional fields
\* it lacks; an event without drone identifier is answered with {error},
\* and nothing is published for it.
C26_OnlyIdentifierOrCatalogFails ==
    DroneHandled =>
        /\ ("droneId" \in DOMAIN DronePayload /\ OptionalWellFormed(DronePayload)
              /\ CollaboratorsUp) =>
               /\ DOMAIN mcp_response.body = {"content"}
               /\ Len(effects) = 1
        /\ "droneId" \notin DOMAIN DronePayload =>
               /\ "error" \in DOMAIN mcp_response.body
               /\ effects = <<>>

\* the tools that only read: from the store, or from a collaborator
ReadTools == {"get_data", "list_pods", "get_cluster_status",
              "list_s3_buckets", "list_glue_jobs", "get_glue_job_status"}
ReadCalled == ToolCalled /\ CalledTool \in ReadTools

\* C27: answering a tools/call of a read tool leaves the store, the
\* database and the server's configuration as they were and writes to no
\* collaborator; the answer of get_data is the entry the (unchanged) store
\* holds under the key, or the not-found error, so that the same call
\* repeated before any write gets the same answer.
C27_ReadsAreIdempotent ==
    [][ReadCalled' =>
          /\ data_store' = data_store
          /\ db_rows' = db_rows
          /\ aws_env' = aws_env
          /\ effects' = <<>>
          /\ (CalledTool' = "get_data" /\ ArgsComplete') =>
                 mcp_response' =
                     [status |-> 200,
                      body |-> IF CalledArgs'.key \in DOMAIN data_store
                               THEN Content(DumpEntry(data_store[CalledArgs'.key]))
                               ELSE Error("Key '" \o CalledArgs'.key \o "' not found")]]_vars

\* get_data of a stored key, answered from a store of two entries
C27_Witness ==
    /\ ReadCalled
    /\ CalledTool = "get_data"
    /\ ArgsComplete
    /\ CalledArgs.key = "a"
    /\ DOMAIN data_store = StoreKeys
    /\ DOMAIN mcp_response.body = {"content"}

\* a capability server, resp. the orchestrator, has answered GET /health
McpHealthAnswered ==
    /\ mcp_pc = "responded"
    /\ mcp_request.req.method = "GET"
    /\ mcp_request.req.params.path = "/health"
HealthAnswered ==
    /\ pc = "responded"
    /\ request.method = "GET"
    /\ request.params.path = "/health"

\* C29: GET /health is answered with status 200 and the text OK by every
\* server in every state (whatever the store and the table hold, with or
\* without AWS credentials and stream), and by the orchestrator; answering
\* it changes no backing state and writes to no collaborator.
C29_HealthAlwaysOK ==
    [][/\ McpHealthAnswered' =>
             /\ mcp_response' = [status |-> 200, body |-> PlainBody("OK")]
             /\ data_store' = data_store
             /\ db_rows' = db_rows
             /\ aws_env' = aws_env
             /\ effects' = <<>>
       /\ HealthAnswered' =>
             /\ response' = [status |-> 200, body |-> PlainBody("OK")]
             /\ calls' = <<>>
             /\ inflight' = {}]_vars

\* the AWS server without credentials, its store-keeping sibling filled:
\* /health answered OK
C29_Witness ==
    /\ McpHealthAnswered
    /\ mcp_request.server = "aws"
    /\ ~aws_env.session
    /\ data_store # <<>>
    /\ mcp_response = [status |-> 200, body |-> PlainBody("OK")]

\* C30: a workflow request whose task contains "bedrock" (in any case, next
\* to any other keyword) runs the reasoning test: one call, to the model,
\* with the request's prompt (or the default one), and the answer is
\* {workflow: "bedrock_test", result} with the string invoke_bedrock
\* returned, the failure string included.
C30_ReasoningTest ==
    (Executing /\ HasGroup(TaskOf, 1)) =>
        /\ branch = "bedrock_test"
        /\ Len(calls) = 1
        /\ calls[1].op = "bedrock"
        /\ calls[1].prompt = Get(request.params, "prompt", "Hello from Nexus Agent Core!")
        /\ pc = "responded" =>
               /\ locals[1] \in ReasoningOutputs
               /\ response = [status |-> 200,
                              body |-> [workflow |-> "bedrock_test", result |-> locals[1]]]

\* bedrock written after a cluster keyword, no prompt given, the model failed
C30_Witness ==
    /\ Finished
    /\ TaskOf = <<"k8s", "bedrock">>
    /\ "prompt" \notin DOMAIN request.params
    /\ response.body = [workflow |-> "bedrock_test",
                        result |-> "Bedrock error: ThrottlingException"]

\* The calls an execution of request r issues when it runs alone and its
\* calls return the values of L
RunAlone(r, L) ==
    LET last == execute_workflow(r.params, L)
        n == IF last.op = "return" THEN Len(L) ELSE Len(L) + 1
    IN [k \in 1..n |-> Sent(execute_workflow(r.params, SubSeq(L, 1, k - 1)))]

\* Process i is where its request, run alone with the values its own calls
\* returned, would be: the same calls, and at the end the same response
\* (workflow id, step labels and results)
AsRunAlone(i) ==
    LET wk == workers[i]
        last == execute_workflow(wk.request.params, wk.locals)
    IN wk.pc # "idle" =>
         /\ wk.calls = RunAlone(wk.request, wk.locals)
         /\ wk.pc = "responded" <=> last.op = "return"
         /\ wk.pc = "responded" => wk.response = [status |-> 200, body |-> last.body]

\* The store_data call process i waits for, if it waits for one
StoreCallOf(i) ==
    LET wk == workers[i] IN
    IF wk.pc = "await_mcp" /\ wk.calls[Len(wk.calls)].tool = "store_data"
    THEN {wk.calls[Len(wk.calls)]}
    ELSE {}

\* Both processes have answered a weather request for Reno, each was told
\* that its analysis is stored, and the analyses differ
BothStoredReno ==
    /\ \A i \in Workers :
          /\ workers[i].pc = "responded"
          /\ Get(workers[i].request.params, "city", "") = "Reno"
          /\ Len(workers[i].locals) = 3
          /\ "content" \in DOMAIN workers[i].locals[3]
    /\ \A i, j \in Workers : i # j => workers[i].locals[2] # workers[j].locals[2]

\* C28: executions side by side are independent.  At every step each
\* execution has issued the calls, and answers with the workflow id and the
\* steps, of its own request run alone with the values its own calls
\* returned; a step of one execution changes nothing of the other nor of the
\* orchestrator's configuration; and the data_store changes only by one
\* process's store_data call, to hold the key and value of that one call.
C28_ConcurrentIndependent ==
    [][/\ \A i \in Workers : AsRunAlone(i)'
       /\ \A i \in Workers :
            workers'[i] # workers[i] =>
                \A j \in Workers \ {i} : workers'[j] = workers[j]
       /\ max_token_count' = max_token_count
       /\ data_store' # data_store =>
            \E i \in Workers : \E c \in StoreCallOf(i) : \E now \in Timestamps :
                /\ workers'[i] # workers[i]
                /\ data_store' = (c.args.key :> [value |-> c.args.value,
                                                 timestamp |-> now]) @@ data_store]_vars

\* two weather workflows for Reno, both told "Stored": the store holds the
\* analysis of one of them under weather_Reno
C28_Witness ==
    /\ BothStoredReno
    /\ DOMAIN data_store = {"weather_Reno"}
    /\ data_store["weather_Reno"].value = workers[1].locals[2]

\* execute_workflow waits for an outbound call to return
Waiting == Executing /\ pc \in {"await_mcp", "await_bedrock"}

\* C31: every workflow execution ends in exactly one terminal outcome.  It
\* issues at most three outbound calls; when every call returns, a handler
\* that waits for one eventually answers; the answer is either complete (a
\* result, or the full trace of steps) or failed (an error object), never
\* both; and once written it is not written again.
C31_OneTerminalOutcome ==
    /\ [](Executing => Len(calls) <= 3)
    /\ [](Finished =>
            /\ Cardinality(DOMAIN response.body \cap {"result", "steps", "error"}) = 1
            /\ "steps" \in DOMAIN response.body => FullTrace)
    /\ [][(pc = "responded" /\ pc' = "responded") => response' = response]_vars
    /\ (Waiting ~> Finished)

\* the weather workflow answered after each of its three calls failed
C31_Witness ==
    /\ Finished
    /\ Len(calls) = 3
    /\ FailedAt(1)
    /\ locals[2] = "Bedrock error: ThrottlingException"
    /\ FailedAt(3)
    /\ FullTrace

\* the task has a keyword of group g and of no group before it
FirstGroup(task, g) == HasGroup(task, g) /\ \A h \in 1..(g - 1) : ~HasGroup(task, h)

\* The task condition under which the code calls each state-changing tool
OwnWorkflow(tool, task) ==
    CASE tool = "start_glue_job" -> FirstGroup(task, 7) /\ Contains("start", task)
      [] tool = "scale_deployment" -> FirstGroup(task, 5) /\ Contains("scale", task)
      [] tool = "store_data" -> FirstGroup(task, 3)
      [] tool = "process_drone_event" -> FirstGroup(task, 6)
      [] OTHER -> FALSE
StateChangingTools == {"start_glue_job", "scale_deployment", "store_data",
                       "process_drone_event"}

\* the tools whose implementation only reads
ReadStyleTools == {"list_s3_buckets", "get_weather", "get_cluster_status", "list_pods",
                   "troubleshoot_pod", "list_glue_jobs", "get_glue_job_status"}

\* a call that changes nothing at the server: a reading tool, or
\* execute_query with a SELECT
ReadStyle(c) ==
    \/ c.tool \in ReadStyleTools
    \/ c.tool = "execute_query" /\ StartsWithSelect(c.args.query)

ToolCallsIssued == {i \in 1..Len(calls) : calls[i].op = "mcp"}

\* C32 as stated: a state-changing tool is called only in its own workflow,
\* every other tool call is read-style.
C32_WritesOnlyInOwnWorkflow ==
    Executing =>
        \A i \in ToolCallsIssued :
            IF calls[i].tool \in StateChangingTools
            THEN OwnWorkflow(calls[i].tool, TaskOf)
            ELSE ReadStyle(calls[i])

\* C32: a state-changing tool is called only in its own workflow and when no
\* group of earlier priority matched; execute_query is called only in the
\* database workflow, with the query the request gave (which may write);
\* every other tool call is read-style.
C32_WritesOnlyInOwnWorkflowOrQuery ==
    Executing =>
        \A i \in ToolCallsIssued :
            IF calls[i].tool \in StateChangingTools
            THEN OwnWorkflow(calls[i].tool, TaskOf)
            ELSE IF calls[i].tool = "execute_query"
            THEN /\ FirstGroup(TaskOf, 4)
                 /\ calls[i].args.query = Get(request.params, "query", "SELECT * FROM users")
            ELSE ReadStyle(calls[i])

\* the database workflow forwarded an INSERT, in a task that also names a
\* later group
C32_Witness ==
    /\ Finished
    /\ TaskOf = <<"scale", "database">>
    /\ Len(calls) = 1
    /\ calls[1].tool = "execute_query"
    /\ calls[1].args.query = QInsert
    /\ ~StartsWithSelect(calls[1].args.query)

\* the run identifier in a start_glue_job result that has one
RunIdIn(r) == json_loads(r.content[1].text).value.run_id

\* C33: get_glue_job_status is only ever the second call of an execution,
\* issued after start_glue_job (the first call) has returned a result from
\* which a run identifier can be read, and it carries the job_name of the
\* start call and exactly that run identifier.
C33_StatusFedByStart ==
    Executing =>
        \A i \in ToolCallsIssued :
            calls[i].tool = "get_glue_job_status" =>
                /\ i = 2
                /\ calls[1].op = "mcp"
                /\ calls[1].tool = "start_glue_job"
                /\ Len(locals) >= 1
                /\ YieldsRunId(locals[1])
                /\ calls[2].args.job_name = calls[1].args.job_name
                /\ calls[2].args.run_id = RunIdIn(locals[1])

\* job x was started and the status of its run jr_1 is being asked for
C33_Witness ==
    /\ Executing
    /\ pc = "await_mcp"
    /\ Len(calls) = 2
    /\ calls[2].tool = "get_glue_job_status"
    /\ calls[2].args = [job_name |-> "x", run_id |-> "jr_1"]
    /\ locals = <<ContentBody(RunText)>>

\* the custom server has answered store_data / get_data called with all
\* its arguments
StoreCalled == ToolCalled /\ CalledTool = "store_data" /\ ArgsComplete
GetCalled == ToolCalled /\ CalledTool = "get_data" /\ ArgsComplete

\* json.loads(text)["value"] of a get_data content text
ValueIn(text) ==
    CHOOSE v \in StoreValues \cup {"none"} :
        \/ \E ts \in Timestamps : text = DumpEntry([value |-> v, timestamp |-> ts])
        \/ v = "none" /\ \A u \in StoreValues, ts \in Timestamps :
                            text # DumpEntry([value |-> u, timestamp |-> ts])

\* C34: the key/value store round trip, step by step.  store_data(k, v)
\* answers with content and leaves v under k and every other entry as it
\* was; no other request changes the store, so v stays under k until the
\* next store_data(k, .); get_data(k) answers with content that carries the
\* value the store holds under k, and for a key the store does not hold
\* (never stored) with {error}.
C34_StoreRoundTrip ==
    [][/\ StoreCalled' =>
             /\ DOMAIN mcp_response'.body = {"content"}
             /\ DOMAIN data_store' = DOMAIN data_store \cup {CalledArgs'.key}
             /\ data_store'[CalledArgs'.key].value = CalledArgs'.value
             /\ \A k \in DOMAIN data_store \ {CalledArgs'.key} :
                    data_store'[k] = data_store[k]
       /\ ~StoreCalled' => data_store' = data_store
       /\ GetCalled' =>
             IF CalledArgs'.key \in DOMAIN data_store
             THEN /\ DOMAIN mcp_response'.body = {"content"}
                  /\ ValueIn(mcp_response'.body.content[1].text)
                         = data_store[CalledArgs'.key].value
             ELSE mcp_response'.body
                      = Error("Key '" \o CalledArgs'.key \o "' not found")]_vars

\* two keys stored with different values: get_data of the second carries
\* the second value
C34_Witness ==
    /\ GetCalled
    /\ CalledArgs.key = "weather_Reno"
    /\ DOMAIN data_store = StoreKeys
    /\ data_store["a"].value = "v1"
    /\ data_store["weather_Reno"].value = "Looks fine."
    /\ ValueIn(mcp_response.body.content[1].text) = "Looks fine."

\* the AWS server, started without valid credentials, has answered a
\* request whose body parsed
AnsweredWithoutSession ==
    /\ mcp_pc = "responded"
    /\ mcp_request.server = "aws"
    /\ mcp_request.req.parsed
    /\ ~aws_env.session

\* C35: without credentials the AWS server answers every tools/call (a
\* registered name, an unregistered one, no name, arguments missing,
\* whatever the collaborators would do) with status 200 and {error: "AWS
\* credentials not configured"} and reaches no collaborator; tools/list is
\* answered with the full registry.
C35_NoCredentials ==
    AnsweredWithoutSession =>
        /\ mcp_request.req.method = "tools/call" =>
               /\ mcp_response = [status |-> 200,
                                  body |-> Error("AWS credentials not configured")]
               /\ effects = <<>>
        /\ mcp_request.req.method = "tools/list" =>
               mcp_response = [status |-> 200, body |-> [tools |-> AWSTools]]

\* a tool the registry does not have, called while the collaborators are up
C35_Witness ==
    /\ AnsweredWithoutSession
    /\ mcp_request.req.method = "tools/call"
    /\ Get(mcp_request.req.params, "name", "") = "delete_bucket"
    /\ CollaboratorsUp
    /\ mcp_response.body = Error("AWS credentials not configured")

\* a cluster task that the sub-classification takes as troubleshoot
TroubleshootTask(task) ==
    /\ InClusterOps(task)
    /\ HasSubGroup(task, 4)
    /\ \A k \in 1..3 : ~HasSubGroup(task, k)

\* C36: a cluster troubleshoot task whose request has no pod_name (or an
\* empty one) is answered at once with the top-level {error: "pod_name
\* required for troubleshooting"}: no workflow id, no steps, and no call to
\* troubleshoot_pod or to the model.
C36_TroubleshootNeedsPod ==
    (Executing /\ TroubleshootTask(TaskOf) /\ ~Truthy(request.params, "pod_name")) =>
        /\ pc = "responded"
        /\ response = [status |-> 200,
                       body |-> [error |-> "pod_name required for troubleshooting"]]
        /\ calls = <<>>
        /\ inflight = {}

\* troubleshoot written before the cluster keyword, no parameters at all
C36_Witness ==
    /\ Finished
    /\ TaskOf = <<"troubleshoot", "k8s">>
    /\ "pod_name" \notin DOMAIN request.params
    /\ DOMAIN response.body = {"error"}
    /\ calls = <<>>

\* dict d has a non-empty value under k
NonEmpty(d, k) == k \in DOMAIN d /\ d[k] \notin {JNull, JString(""), JObject(<<>>)}

\* the precedence: the explicit key (d[k]), else the drone identifier of
\* the payload, else the constant
KeyByPrecedence(d, k, payload) ==
    IF NonEmpty(d, k) THEN d[k]
    ELSE IF NonEmpty(payload, "droneId") THEN payload.droneId
    ELSE JString("nexus-drone")

\* the request the AWS server has answered is the call the orchestrator issued
HandledOwnCall ==
    /\ Executing
    /\ branch = "drone_ingest"
    /\ Len(locals) >= 1
    /\ mcp_request.req = OnWire(calls[1])

\* C37: the key telemetry is published with follows the precedence explicit
\* key, drone identifier, "nexus-drone" (each taken when non-empty).  The
\* orchestrator computes the partitionKey argument of its call by it from
\* the request; the server computes the key of the record it publishes by
\* it from the arguments; and the record published for the orchestrator's
\* call has the key the orchestrator computed.
C37_PartitionKeyPrecedence ==
    /\ (Executing /\ branch = "drone_ingest" /\ Len(calls) >= 1) =>
           calls[1].args.partitionKey =
               KeyByPrecedence(request.params, "partition_key", EventOf(request.params).value)
    /\ DronePublished =>
           effects[1].PartitionKey = KeyByPrecedence(CalledArgs, "partitionKey", DronePayload)
    /\ (DronePublished /\ HandledOwnCall) =>
           effects[1].PartitionKey = calls[1].args.partitionKey

\* the request gave an empty partition key and an event of drone d1: the
\* record of the orchestrator's call is published under d1
C37_Witness ==
    /\ DronePublished
    /\ HandledOwnCall
    /\ Get(request.params, "partition_key", JNull) = JString("")
    /\ calls[1].args.partitionKey = JString("d1")
    /\ effects[1].PartitionKey = JString("d1")

\* the SQLite server has answered execute_query called with a query
QueryCalled ==
    /\ ToolCalled
    /\ mcp_request.server = "database"
    /\ CalledTool = "execute_query"
    /\ ArgsComplete

\* C38: execute_query is atomic.  A query that raises (the statement fails,
\* or the database is locked) is answered with {error} and the table is as
\* before; whenever the answer is an error the table is as before; a
\* SELECT leaves the table as it is; and when a statement other than a
\* SELECT succeeds, the table already holds its result when the content
\* answer is there.
C38_QueryAtomic ==
    [][QueryCalled' =>
          LET q == CalledArgs'.query
              env == mcp_request'.env[1]
              x == Execute(q, db_rows)
          IN /\ "error" \in DOMAIN mcp_response'.body => db_rows' = db_rows
             /\ (env = "api_error" \/ (env = "ok" /\ ~x.ok)) =>
                    /\ mcp_response'.status = 200
                    /\ DOMAIN mcp_response'.body = {"error"}
                    /\ db_rows' = db_rows
             /\ StartsWithSelect(q) => db_rows' = db_rows
             /\ (env = "ok" /\ x.ok /\ ~StartsWithSelect(q)) =>
                    /\ DOMAIN mcp_response'.body = {"content"}
                    /\ db_rows' = x.rows]_vars

\* Carol is in the table and is inserted once more: the statement fails on
\* the unique e-mail, and the table keeps its three rows
C38_Witness ==
    /\ QueryCalled
    /\ CalledArgs.query = QInsert
    /\ mcp_request.env = <<"ok">>
    /\ mcp_response.body = Error("UNIQUE constraint failed: users.email")
    /\ db_rows = SampleUsers \cup {"Carol"}

====
